---- MODULE Spec2Model ----
(***************************************************************************)
(* Model of the watchstock strategy engine: the technical-indicator        *)
(* library (indicators.ts), the Pine-like script parser (scriptParser.ts)  *)
(* and the signal check loop of the extension that drives them.            *)
(*                                                                         *)
(* Numbers are exact rationals [n, d] (d > 0, lowest terms) where the      *)
(* program uses IEEE doubles; the inputs are small integers, for which the *)
(* boundary branches the properties are about (=== 0, flat range, empty    *)
(* series) are decided identically.                                        *)
(***************************************************************************)
EXTENDS Integers, Sequences, FiniteSets, TLC

VARIABLES indCall, parsers, strategies, batch, view,
          dash, watch, auto, fetch

\* the strategy engine, and the extension host around it
engineVars == <<indCall, parsers, strategies, batch, view>>
hostVars == <<dash, watch, auto, fetch>>
vars == <<engineVars, hostVars>>

----------------------------------------------------------------------------
(* Bounds of the indicator-library inputs *)
MaxLen == 3
MaxPrice == 3
MaxPeriod == 3
\* length of the long price histories given to the parser
HistLen == 16
\* number of stored strategies
MaxStrategies == 2
\* longest high / low / close series and largest price handed to kdj
MaxKdjLen == 2
MaxKdjPrice == 2

----------------------------------------------------------------------------
(* JavaScript numbers as rationals *)

RECURSIVE GCD(_, _)
GCD(a, b) == IF b = 0 THEN a ELSE GCD(b, a % b)

Abs(x) == IF x < 0 THEN -x ELSE x

Rat(n, d) ==
    LET s == IF d < 0 THEN -1 ELSE 1
        g == GCD(Abs(n), Abs(d))
    IN  [n |-> (s * n) \div g, d |-> (s * d) \div g]

RInt(i) == [n |-> i, d |-> 1]
RAdd(x, y) == Rat(x.n * y.d + y.n * x.d, x.d * y.d)
RSub(x, y) == Rat(x.n * y.d - y.n * x.d, x.d * y.d)
RMul(x, y) == Rat(x.n * y.n, x.d * y.d)
RDiv(x, y) == Rat(x.n * y.d, x.d * y.n)
RLt(x, y) == x.n * y.d < y.n * x.d
RLe(x, y) == x.n * y.d <= y.n * x.d

RECURSIVE RSum(_)
RSum(s) == IF s = <<>> THEN RInt(0) ELSE RAdd(Head(s), RSum(Tail(s)))

(* Array.prototype.slice(from, to) with 0-based, end-exclusive indices *)
Slice(s, from, to) ==
    LET f == IF from < 0 THEN 0 ELSE from
        t == IF to > Len(s) THEN Len(s) ELSE to
    IN  IF t <= f THEN <<>> ELSE SubSeq(s, f + 1, t)

----------------------------------------------------------------------------
(* indicators.ts *)

\* mutant of sma: the points before the first full window are zero-filled
sma_zerofilled(prices, period) ==
    IF Len(prices) < period THEN <<>>
    ELSE [k \in 1..Len(prices) |->
             IF k < period THEN RInt(0)
             ELSE RDiv(RSum(Slice(prices, k - period, k)), RInt(period))]

\* sma(prices, period): one mean per trailing window, empty when too short
sma(prices, period) ==
    IF Len(prices) < period THEN <<>>
    ELSE [k \in 1..(Len(prices) - period + 1) |->
             LET i == k + period - 2
             IN  RDiv(RSum(Slice(prices, i - period + 1, i + 1)), RInt(period))]

\* mutant of ema: the length guard before seeding is dropped
ema_nolengthguard(prices, period) ==
    IF Len(prices) = 0 THEN <<>>
    ELSE <<RDiv(RSum(Slice(prices, 0, period)), RInt(period))>>

RECURSIVE emaLoop(_, _, _, _)
emaLoop(prices, i, multiplier, result) ==
    IF i >= Len(prices) THEN result
    ELSE LET prev == result[Len(result)]
             emaValue == RAdd(RMul(RSub(prices[i + 1], prev), multiplier), prev)
         IN  emaLoop(prices, i + 1, multiplier, Append(result, emaValue))

\* ema(prices, period): seeded with the SMA of the first period points
ema(prices, period) ==
    IF Len(prices) = 0 THEN <<>>
    ELSE IF Len(prices) >= period
         THEN LET multiplier == Rat(2, period + 1)
                  firstSMA == RDiv(RSum(Slice(prices, 0, period)), RInt(period))
              IN  emaLoop(prices, period, multiplier, <<firstSMA>>)
         ELSE <<>>

\* mutant of gainsOf: the size of every change counts as a gain
gainsOf_absolute(prices) ==
    [j \in 1..(Len(prices) - 1) |->
        LET change == RSub(prices[j + 1], prices[j])
        IN  IF RLt(change, RInt(0)) THEN RSub(RInt(0), change) ELSE change]

\* middle + times * Math.sqrt(variance), kept as its three parts
Band(middle, variance, times) == [base |-> middle, root |-> variance, times |-> times]

RECURSIVE sumSquares(_, _)
sumSquares(slice, middle) ==
    IF slice = <<>> THEN RInt(0)
    ELSE RAdd(RMul(RSub(Head(slice), middle), RSub(Head(slice), middle)),
              sumSquares(Tail(slice), middle))

bandsAround(slice, middle, period, stdDev) ==
    [upper |-> Band(middle, RDiv(sumSquares(slice, middle), RInt(period)), stdDev),
     middle |-> middle,
     lower |-> Band(middle, RDiv(sumSquares(slice, middle), RInt(period)), -stdDev)]

bandsOf(slice, period, stdDev) ==
    bandsAround(slice, RDiv(RSum(slice), RInt(period)), period, stdDev)

\* bollingerBands(prices, period, stdDev)
bollingerBands(prices, period, stdDev) ==
    IF Len(prices) < period THEN <<>>
    ELSE [k \in 1..(Len(prices) - period + 1) |->
             bandsOf(Slice(prices, k - 1, k + period - 1), period, stdDev)]

\* the MACD line: the two EMA series subtracted index by index from their
\* first points, over the length of the shorter one
macdLineOf(fastEMA, slowEMA) ==
    [i \in 1..(IF Len(fastEMA) < Len(slowEMA) THEN Len(fastEMA) ELSE Len(slowEMA)) |->
        RSub(fastEMA[i], slowEMA[i])]

\* one result per signal point, with the MACD value of the same tail position
macdResult(macdLine, signalLine) ==
    [i \in 1..Len(signalLine) |->
        [macd |-> macdLine[i + (Len(macdLine) - Len(signalLine))],
         signal |-> signalLine[i],
         histogram |-> RSub(macdLine[i + (Len(macdLine) - Len(signalLine))],
                            signalLine[i])]]

macdSignalled(macdLine, signalPeriod) ==
    macdResult(macdLine, ema(macdLine, signalPeriod))

macdFrom(fastEMA, slowEMA, signalPeriod) ==
    IF Len(fastEMA) = 0 \/ Len(slowEMA) = 0 THEN <<>>
    ELSE macdSignalled(macdLineOf(fastEMA, slowEMA), signalPeriod)

\* macd(prices, fastPeriod, slowPeriod, signalPeriod)
macd(prices, fastPeriod, slowPeriod, signalPeriod) ==
    macdFrom(ema(prices, fastPeriod), ema(prices, slowPeriod), signalPeriod)

gainsOf(prices) ==
    [j \in 1..(Len(prices) - 1) |->
        LET change == RSub(prices[j + 1], prices[j])
        IN  IF RLt(RInt(0), change) THEN change ELSE RInt(0)]

lossesOf(prices) ==
    [j \in 1..(Len(prices) - 1) |->
        LET change == RSub(prices[j + 1], prices[j])
        IN  IF RLt(change, RInt(0)) THEN RSub(RInt(0), change) ELSE RInt(0)]

\* mutant of rsiPoint: the zero test is made on the average gain
rsiPoint_zerogain(gains, losses, i, period) ==
    LET avgGain == RDiv(RSum(Slice(gains, i - period + 1, i + 1)), RInt(period))
        avgLoss == RDiv(RSum(Slice(losses, i - period + 1, i + 1)), RInt(period))
    IN  IF avgGain = RInt(0) THEN RInt(0)
        ELSE IF avgLoss = RInt(0) THEN RInt(100)
        ELSE RSub(RInt(100), RDiv(RInt(100), RAdd(RInt(1), RDiv(avgGain, avgLoss))))

rsiPoint(gains, losses, i, period) ==
    LET avgGain == RDiv(RSum(Slice(gains, i - period + 1, i + 1)), RInt(period))
        avgLoss == RDiv(RSum(Slice(losses, i - period + 1, i + 1)), RInt(period))
    IN  IF avgLoss = RInt(0) THEN RInt(100)
        ELSE LET rs == RDiv(avgGain, avgLoss)
             IN  RSub(RInt(100), RDiv(RInt(100), RAdd(RInt(1), rs)))

\* rsi(prices, period): needs period + 1 prices
rsi(prices, period) ==
    IF Len(prices) < period + 1 THEN <<>>
    ELSE LET gains == gainsOf(prices)
             losses == lossesOf(prices)
         IN  [k \in 1..(Len(gains) - period + 1) |->
                 rsiPoint(gains, losses, k + period - 2, period)]

\* mutant of crossover: the current points are compared loosely
crossover_loosecurrent(series1, series2) ==
    IF Len(series1) < 2 \/ Len(series2) < 2
    THEN [bullishCross |-> FALSE, bearishCross |-> FALSE]
    ELSE LET curr1 == series1[Len(series1)]
             prev1 == series1[Len(series1) - 1]
             curr2 == series2[Len(series2)]
             prev2 == series2[Len(series2) - 1]
         IN  [bullishCross |-> RLe(prev1, prev2) /\ RLe(curr2, curr1),
              bearishCross |-> RLe(prev2, prev1) /\ RLe(curr1, curr2)]

\* mutant of crossover: the previous points are compared strictly
crossover_strict(series1, series2) ==
    IF Len(series1) < 2 \/ Len(series2) < 2
    THEN [bullishCross |-> FALSE, bearishCross |-> FALSE]
    ELSE LET curr1 == series1[Len(series1)]
             prev1 == series1[Len(series1) - 1]
             curr2 == series2[Len(series2)]
             prev2 == series2[Len(series2) - 1]
         IN  [bullishCross |-> RLt(prev1, prev2) /\ RLt(curr2, curr1),
              bearishCross |-> RLt(prev2, prev1) /\ RLt(curr1, curr2)]

\* crossover(series1, series2): flags from the last two points of each series
crossover(series1, series2) ==
    IF Len(series1) < 2 \/ Len(series2) < 2
    THEN [bullishCross |-> FALSE, bearishCross |-> FALSE]
    ELSE LET curr1 == series1[Len(series1)]
             prev1 == series1[Len(series1) - 1]
             curr2 == series2[Len(series2)]
             prev2 == series2[Len(series2) - 1]
         IN  [bullishCross |-> RLe(prev1, prev2) /\ RLt(curr2, curr1),
              bearishCross |-> RLe(prev2, prev1) /\ RLt(curr1, curr2)]

\* NaN among the rationals; every operation on it gives it back
RNaN == [n |-> 0, d |-> 0]
IsRNaN(x) == x.d = 0
NAdd(x, y) == IF IsRNaN(x) \/ IsRNaN(y) THEN RNaN ELSE RAdd(x, y)
NSub(x, y) == IF IsRNaN(x) \/ IsRNaN(y) THEN RNaN ELSE RSub(x, y)
NMul(x, y) == IF IsRNaN(x) \/ IsRNaN(y) THEN RNaN ELSE RMul(x, y)
NDiv(x, y) == IF IsRNaN(x) \/ IsRNaN(y) THEN RNaN ELSE RDiv(x, y)

\* Math.max(...s) and Math.min(...s) of a non-empty array
RMax(s) == s[CHOOSE i \in 1..Len(s) : \A j \in 1..Len(s) : RLe(s[j], s[i])]
RMin(s) == s[CHOOSE i \in 1..Len(s) : \A j \in 1..Len(s) : RLe(s[i], s[j])]

\* mutant of rsvAt: a flat window counts as the bottom of the range
rsvAt_flatzero(highs, lows, closes, i, period) ==
    LET hs == Slice(highs, i - period + 1, i + 1)
        ls == Slice(lows, i - period + 1, i + 1)
    IN  IF ls = <<>> THEN RNaN
        ELSE IF hs = <<>> THEN RInt(0)
        ELSE IF RMax(hs) = RMin(ls) THEN RInt(0)
        ELSE RMul(RDiv(RSub(closes[i + 1], RMin(ls)), RSub(RMax(hs), RMin(ls))),
                  RInt(100))

\* the RSV of kdj at index i.  A window past the end of lows has
\* Math.min() = Infinity, which makes the quotient NaN; one past the end of
\* highs only has Math.max() = -Infinity, which makes it 0.
rsvAt(highs, lows, closes, i, period) ==
    LET hs == Slice(highs, i - period + 1, i + 1)
        ls == Slice(lows, i - period + 1, i + 1)
    IN  IF ls = <<>> THEN RNaN
        ELSE IF hs = <<>> THEN RInt(0)
        ELSE IF RMax(hs) = RMin(ls) THEN RInt(50)
        ELSE RMul(RDiv(RSub(closes[i + 1], RMin(ls)), RSub(RMax(hs), RMin(ls))),
                  RInt(100))

\* the K and D loops of kdj: a running average that starts from 50
RECURSIVE smoothFrom(_, _, _, _, _), smoothNext(_, _, _, _, _)
smoothFrom(values, i, prev, n, result) ==
    IF i > Len(values) THEN result
    ELSE smoothNext(values, i, n, result,
                    NDiv(NAdd(values[i], NMul(RInt(n - 1), prev)), RInt(n)))

smoothNext(values, i, n, result, k) ==
    smoothFrom(values, i + 1, k, n, Append(result, k))

kdjPoints(kValues, dValues) ==
    [i \in 1..Len(kValues) |->
        [k |-> kValues[i], d |-> dValues[i],
         j |-> NSub(NMul(RInt(3), kValues[i]), NMul(RInt(2), dValues[i]))]]

kdjSmoothed(kValues, dSmooth) ==
    kdjPoints(kValues, smoothFrom(kValues, 1, RInt(50), dSmooth, <<>>))

\* kdj(highs, lows, closes, period, kSmooth, dSmooth)
kdj(highs, lows, closes, period, kSmooth, dSmooth) ==
    IF Len(highs) < period \/ Len(lows) < period \/ Len(closes) < period THEN <<>>
    ELSE kdjSmoothed(
             smoothFrom([n \in 1..(Len(closes) - period + 1) |->
                            rsvAt(highs, lows, closes, n + period - 2, period)],
                        1, RInt(50), kSmooth, <<>>),
             dSmooth)

\* mutant of wrAt: no guard against the flat range, the quotient is 0 / 0
wrAt_noflatguard(highs, lows, closes, i, period) ==
    LET hs == Slice(highs, i - period + 1, i + 1)
        ls == Slice(lows, i - period + 1, i + 1)
    IN  IF hs = <<>> THEN RNaN
        ELSE IF ls = <<>> THEN RInt(0)
        ELSE IF RMax(hs) = RMin(ls) THEN RNaN
        ELSE RMul(RDiv(RSub(RMax(hs), closes[i + 1]), RSub(RMax(hs), RMin(ls))),
                  RInt(-100))

\* the Williams %R of williamsR at index i.  A window past the end of highs
\* has Math.max() = -Infinity, which makes the quotient NaN; one past the end
\* of lows only has Math.min() = Infinity, which makes it 0.
wrAt(highs, lows, closes, i, period) ==
    LET hs == Slice(highs, i - period + 1, i + 1)
        ls == Slice(lows, i - period + 1, i + 1)
    IN  IF hs = <<>> THEN RNaN
        ELSE IF ls = <<>> THEN RInt(0)
        ELSE IF RMax(hs) = RMin(ls) THEN RInt(-50)
        ELSE RMul(RDiv(RSub(RMax(hs), closes[i + 1]), RSub(RMax(hs), RMin(ls))),
                  RInt(-100))

\* williamsR(highs, lows, closes, period)
williamsR(highs, lows, closes, period) ==
    IF Len(highs) < period \/ Len(lows) < period \/ Len(closes) < period THEN <<>>
    ELSE [n \in 1..(Len(closes) - period + 1) |->
             wrAt(highs, lows, closes, n + period - 2, period)]

----------------------------------------------------------------------------
(* Script text.  A script is a sequence of lexemes; the scripts considered *)
(* separate their lexemes by blanks and use identifiers without digits, so *)
(* the regular expressions of the parser act on whole lexemes.             *)
(*   id  : a word (\w+ starting with a letter)                             *)
(*   num : an unsigned numeric literal, with its value                     *)
(*   op  : punctuation, "\n" for a line break, "//" for a comment start    *)

Id(s) == [k |-> "id", s |-> s, v |-> RInt(0)]
Num(i) == [k |-> "num", s |-> "", v |-> RInt(i)]
NumR(r) == [k |-> "num", s |-> "", v |-> r]
Op(s) == [k |-> "op", s |-> s, v |-> RInt(0)]

IsOp(t, s) == t.k = "op" /\ t.s = s

----------------------------------------------------------------------------
(* JavaScript values *)

JsNum(r) == [k |-> "num", r |-> r, a |-> <<>>]
JsBool(b) == [k |-> "bool", r |-> RInt(IF b THEN 1 ELSE 0), a |-> <<>>]
JsArr(a) == [k |-> "arr", r |-> RInt(0), a |-> a]
JsInf(sign) == [k |-> "inf", r |-> RInt(sign), a |-> <<>>]
JsUndefined == [k |-> "undef", r |-> RInt(0), a |-> <<>>]
JsNaN == [k |-> "nan", r |-> RInt(0), a |-> <<>>]
\* a thrown exception, propagating until a catch
JsThrow == [k |-> "throw", r |-> RInt(0), a |-> <<>>]
\* a value outside the part of JavaScript the model evaluates
JsUnsupported == [k |-> "unsupported", r |-> RInt(0), a |-> <<>>]

IsAbrupt(v) == v.k \in {"throw", "unsupported"}

\* ToNumber
ToNumber(v) ==
    CASE v.k = "num" -> v
      [] v.k = "bool" -> JsNum(v.r)
      [] v.k = "inf" -> v
      [] v.k = "arr" ->
            IF Len(v.a) = 0 THEN JsNum(RInt(0))
            ELSE IF Len(v.a) = 1 /\ v.a[1].k \in {"num", "inf", "nan"} THEN v.a[1]
            ELSE IF Len(v.a) = 1 THEN JsUnsupported
            ELSE JsNaN
      [] v.k \in {"throw", "unsupported"} -> v
      [] OTHER -> JsNaN

\* ToBoolean
Truthy(v) ==
    CASE v.k = "num" -> v.r.n # 0
      [] v.k = "bool" -> v.r.n = 1
      [] v.k \in {"inf", "arr"} -> TRUE
      [] OTHER -> FALSE

Sign(x) == IF x.k = "inf" THEN x.r.n
           ELSE IF x.r.n > 0 THEN 1 ELSE IF x.r.n < 0 THEN -1 ELSE 0

\* the arithmetic operators of the language on two numbers (after ToNumber)
NumArith(op, x, y) ==
    IF IsAbrupt(x) THEN x
    ELSE IF IsAbrupt(y) THEN y
    ELSE IF x.k = "nan" \/ y.k = "nan" THEN JsNaN
    ELSE IF x.k = "num" /\ y.k = "num" THEN
        CASE op = "+" -> JsNum(RAdd(x.r, y.r))
          [] op = "-" -> JsNum(RSub(x.r, y.r))
          [] op = "*" -> JsNum(RMul(x.r, y.r))
          [] op = "/" -> IF y.r.n # 0 THEN JsNum(RDiv(x.r, y.r))
                         ELSE IF x.r.n = 0 THEN JsNaN
                         ELSE JsInf(Sign(x))
    ELSE
        CASE op = "+" -> IF x.k = "inf" /\ y.k = "inf" /\ x.r # y.r THEN JsNaN
                         ELSE IF x.k = "inf" THEN x ELSE y
          [] op = "-" -> IF x.k = "inf" /\ y.k = "inf" /\ x.r = y.r THEN JsNaN
                         ELSE IF x.k = "inf" THEN x ELSE JsInf(-Sign(y))
          [] op = "*" -> IF Sign(x) * Sign(y) = 0 THEN JsNaN
                         ELSE JsInf(Sign(x) * Sign(y))
          [] op = "/" -> IF x.k = "inf" /\ y.k = "inf" THEN JsNaN
                         ELSE IF y.k = "inf" THEN JsNum(RInt(0))
                         ELSE JsInf(IF Sign(y) < 0 THEN -Sign(x) ELSE Sign(x))

\* x < y on two numbers
NumLess(x, y) ==
    IF x.k = "nan" \/ y.k = "nan" THEN FALSE
    ELSE IF x.k = "num" /\ y.k = "num" THEN RLt(x.r, y.r)
    ELSE IF x.k = "inf" /\ y.k = "inf" THEN x.r.n < y.r.n
    ELSE IF x.k = "inf" THEN x.r.n < 0
    ELSE y.r.n > 0

\* binary operators of the host language: + - * / < >
\* (+ on an array operand is string concatenation, which is not modelled)
JsBinary(op, l, r) ==
    IF IsAbrupt(l) THEN l
    ELSE IF IsAbrupt(r) THEN r
    ELSE IF op = "+" /\ (l.k = "arr" \/ r.k = "arr") THEN JsUnsupported
    ELSE LET x == ToNumber(l)
             y == ToNumber(r)
         IN  IF IsAbrupt(x) THEN x
             ELSE IF IsAbrupt(y) THEN y
             ELSE IF op = "<" THEN JsBool(NumLess(x, y))
             ELSE IF op = ">" THEN JsBool(NumLess(y, x))
             ELSE NumArith(op, x, y)

\* unary operators of the host language: ! - +
JsUnary(op, v) ==
    IF IsAbrupt(v) THEN v
    ELSE IF op = "!" THEN JsBool(~Truthy(v))
    ELSE IF op = "+" THEN ToNumber(v)
    ELSE NumArith("-", JsNum(RInt(0)), ToNumber(v))

\* o[i]: reading a member of undefined throws a TypeError
JsIndex(o, i) ==
    IF IsAbrupt(o) THEN o
    ELSE IF IsAbrupt(i) THEN i
    ELSE IF o.k = "undef" THEN JsThrow
    ELSE IF o.k = "arr" /\ i.k = "num" /\ i.r.d = 1
              /\ i.r.n >= 0 /\ i.r.n < Len(o.a) THEN o.a[i.r.n + 1]
    ELSE IF i.k \in {"num", "bool", "undef", "nan", "inf"} THEN JsUndefined
    ELSE JsUnsupported

----------------------------------------------------------------------------
(* The host evaluator: what `new Function('return ' + text)()` computes    *)
(* for a text made of numbers and the punctuation safeEval lets through.   *)
(* Operator levels: 1 comma, 2 ||, 3 &&, 4 < >, 5 + -, 6 * /, then unary,  *)
(* then member access and call, then literals, parentheses and arrays.     *)

PFail == [ok |-> FALSE, v |-> JsUndefined, p |-> 0]
POk(v, p) == [ok |-> TRUE, v |-> v, p |-> p]

OpsAt(level) ==
    CASE level = 1 -> {","}
      [] level = 2 -> {"||"}
      [] level = 3 -> {"&&"}
      [] level = 4 -> {"<", ">"}
      [] level = 5 -> {"+", "-"}
      [] level = 6 -> {"*", "/"}

Combine(level, op, l, r) ==
    CASE level = 1 -> IF IsAbrupt(l) THEN l ELSE r
      [] level = 2 -> IF IsAbrupt(l) THEN l ELSE IF Truthy(l) THEN l ELSE r
      [] level = 3 -> IF IsAbrupt(l) THEN l ELSE IF Truthy(l) THEN r ELSE l
      [] OTHER -> JsBinary(op, l, r)

TokIs(t, p, s) == p <= Len(t) /\ IsOp(t[p], s)

RECURSIVE PBin(_, _, _), PBinRest(_, _, _, _), PUnary(_, _)
RECURSIVE PPostfixRest(_, _, _), PPrimary(_, _), PElems(_, _, _), PArgs(_, _)

PBin(level, t, p) ==
    IF level > 6 THEN PUnary(t, p)
    ELSE LET l == PBin(level + 1, t, p)
         IN  IF l.ok THEN PBinRest(level, t, l.v, l.p) ELSE PFail

PBinRest(level, t, left, p) ==
    IF p <= Len(t) /\ t[p].k = "op" /\ t[p].s \in OpsAt(level)
    THEN LET r == PBin(level + 1, t, p + 1)
         IN  IF r.ok
             THEN PBinRest(level, t, Combine(level, t[p].s, left, r.v), r.p)
             ELSE PFail
    ELSE POk(left, p)

PUnary(t, p) ==
    IF p <= Len(t) /\ t[p].k = "op" /\ t[p].s \in {"!", "-", "+"}
    THEN LET u == PUnary(t, p + 1)
         IN  IF u.ok THEN POk(JsUnary(t[p].s, u.v), u.p) ELSE PFail
    ELSE LET prim == PPrimary(t, p)
         IN  IF prim.ok THEN PPostfixRest(t, prim.v, prim.p) ELSE PFail

PPostfixRest(t, v, p) ==
    IF TokIs(t, p, "[")
    THEN LET e == PBin(1, t, p + 1)
         IN  IF e.ok /\ TokIs(t, e.p, "]")
             THEN PPostfixRest(t, JsIndex(v, e.v), e.p + 1)
             ELSE PFail
    ELSE IF TokIs(t, p, "(")
    THEN LET args == PArgs(t, p + 1)
         \* nothing the text can denote is callable: TypeError
         IN  IF args.ok
             THEN PPostfixRest(t, IF v.k = "unsupported" THEN v ELSE JsThrow, args.p)
             ELSE PFail
    ELSE POk(v, p)

PPrimary(t, p) ==
    IF p > Len(t) THEN PFail
    ELSE IF t[p].k = "num" THEN POk(JsNum(t[p].v), p + 1)
    ELSE IF IsOp(t[p], "(")
    THEN LET e == PBin(1, t, p + 1)
         IN  IF e.ok /\ TokIs(t, e.p, ")") THEN POk(e.v, e.p + 1) ELSE PFail
    ELSE IF IsOp(t[p], "[")
    THEN IF TokIs(t, p + 1, "]") THEN POk(JsArr(<<>>), p + 2)
         ELSE PElems(t, p + 1, <<>>)
    ELSE PFail

\* the elements of an array literal, up to and including "]"
PElems(t, p, acc) ==
    LET e == PBin(2, t, p)
    IN  IF ~e.ok THEN PFail
        ELSE IF TokIs(t, e.p, ",") THEN PElems(t, e.p + 1, Append(acc, e.v))
        ELSE IF TokIs(t, e.p, "]")
        THEN LET all == Append(acc, e.v)
                 bad == {i \in 1..Len(all) : IsAbrupt(all[i])}
             IN  POk(IF bad = {} THEN JsArr(all)
                     ELSE all[CHOOSE i \in bad : \A j \in bad : i <= j],
                     e.p + 1)
        ELSE PFail

\* the arguments of a call, up to and including ")"; only their syntax matters
PArgs(t, p) ==
    IF TokIs(t, p, ")") THEN POk(JsUndefined, p + 1)
    ELSE LET e == PBin(2, t, p)
         IN  IF ~e.ok THEN PFail
             ELSE IF TokIs(t, e.p, ",") /\ ~TokIs(t, e.p + 1, ")")
             THEN PArgs(t, e.p + 1)
             ELSE IF TokIs(t, e.p, ")") THEN POk(JsUndefined, e.p + 1)
             ELSE PFail

\* texts whose meaning lies outside the operators above: string and regular
\* expression literals, = & | as single characters, array holes
HostSupported(t) ==
    /\ \A i \in 1..Len(t) :
          /\ t[i].k \in {"num", "op"}
          /\ t[i].k = "op" =>
                t[i].s \in {",", "||", "&&", "<", ">", "+", "-", "*", "/",
                            "!", "(", ")", "[", "]"}
          /\ IsOp(t[i], "/") =>
                /\ i > 1
                /\ (t[i - 1].k = "num" \/ IsOp(t[i - 1], ")") \/ IsOp(t[i - 1], "]"))
          /\ (IsOp(t[i], ",") /\ i > 1) => ~(IsOp(t[i - 1], "[") \/ IsOp(t[i - 1], ","))
          /\ (IsOp(t[i], "]") /\ i > 1) => ~IsOp(t[i - 1], ",")

\* new Function('return ' + text)(): a SyntaxError from the constructor or a
\* TypeError from the call is JsThrow
HostEval(t) ==
    IF ~HostSupported(t) THEN JsUnsupported
    ELSE IF t = <<>> THEN JsUndefined
    ELSE LET r == PBin(1, t, 1)
         IN  IF r.ok /\ r.p = Len(t) + 1 THEN r.v ELSE JsThrow

----------------------------------------------------------------------------
(* scriptParser.ts *)

\* a script handed to execute: a text, or a value that is not a string
Text(toks) == [isString |-> TRUE, toks |-> toks]
NotAString == [isString |-> FALSE, toks |-> <<>>]

\* ScriptContext; defined = FALSE is a parser constructed without a context
NoContext ==
    [defined |-> FALSE, price |-> RInt(0), change |-> RInt(0),
     changePercent |-> RInt(0), historicalPrices |-> <<>>,
     indicatorCache |-> [id |-> 0, entries |-> {}]]

BuiltinFunctionNames ==
    {"sma", "ema", "rsi", "macd", "macd_signal", "macd_histogram",
     "bb_upper", "bb_middle", "bb_lower", "kdj_k", "kdj_d", "kdj_j", "wr",
     "crossover", "crossunder", "abs", "max", "min", "round", "floor", "ceil"}

BuiltinVariableNames ==
    {"close", "price", "change", "change_percent", "prices", "highs", "lows"}

\* what an evaluation leaves behind besides its value: the texts handed to
\* the Function constructor, the number of console.error reports, whether a
\* construct outside the modelled language was met, and the built-in
\* functions called, in order, each with its resolved arguments
NoEff == [evals |-> {}, errs |-> 0, unsup |-> FALSE, calls |-> <<>>]
EffJoin(e, f) == [evals |-> e.evals \cup f.evals, errs |-> e.errs + f.errs,
                  unsup |-> e.unsup \/ f.unsup, calls |-> e.calls \o f.calls]

\* String(x) / JSON.stringify(x) of a number, as lexemes
NumToks(r) == IF r.n < 0 THEN <<Op("-"), NumR(Rat(-r.n, r.d))>> ELSE <<NumR(r)>>

RECURSIVE ArrayToks(_)
ArrayToks(a) ==
    IF a = <<>> THEN <<>>
    ELSE IF Len(a) = 1 THEN NumToks(a[1])
    ELSE NumToks(a[1]) \o <<Op(",")>> \o ArrayToks(Tail(a))

\* BUILTIN_VARIABLES[name](context), JSON.stringify-ed
VariableToks(name, context) ==
    CASE name \in {"close", "price"} -> NumToks(context.price)
      [] name = "change" -> NumToks(context.change)
      [] name = "change_percent" -> NumToks(context.changePercent)
      [] name = "prices" ->
            <<Op("[")>> \o ArrayToks(context.historicalPrices) \o <<Op("]")>>
      [] OTHER -> <<Op("["), Op("]")>>

\* BUILTIN_VARIABLES[name](context), as a value
VariableValue(name, context) ==
    CASE name \in {"close", "price"} -> JsNum(context.price)
      [] name = "change" -> JsNum(context.change)
      [] name = "change_percent" -> JsNum(context.changePercent)
      [] name = "prices" ->
            JsArr([i \in 1..Len(context.historicalPrices) |->
                      JsNum(context.historicalPrices[i])])
      [] OTHER -> JsArr(<<>>)

\* String(result) of a built-in's result, as lexemes
StringToks(v) ==
    CASE v.k = "num" -> NumToks(v.r)
      [] v.k = "undef" -> <<Id("undefined")>>
      [] v.k = "nan" -> <<Id("NaN")>>
      [] v.k = "bool" -> <<Id(IF v.r.n = 1 THEN "true" ELSE "false")>>
      [] v.k = "inf" -> IF v.r.n < 0 THEN <<Op("-"), Id("Infinity")>>
                        ELSE <<Id("Infinity")>>
      [] OTHER -> <<Id("unsupported")>>

\* indicators.latest
latest(values) ==
    IF Len(values) > 0 THEN JsNum(values[Len(values)]) ELSE JsUndefined

ArgAt(args, i) == IF i <= Len(args) THEN args[i] ELSE JsUndefined

IsNumArray(v) == v.k = "arr" /\ \A i \in 1..Len(v.a) : v.a[i].k = "num"
IsPeriod(v) == v.k = "num" /\ v.r.d = 1 /\ v.r.n >= 1
RatsOf(v) == [i \in 1..Len(v.a) |-> v.a[i].r]

\* BUILTIN_FUNCTIONS.sma / ema / rsi applied to the values the parser passes.
\* A value without a length (number, boolean) makes every length comparison
\* false, so the library loops do not run; undefined has no properties.
ApplyIndicator(fn, prices, period) ==
    IF prices.k = "undef" THEN JsThrow
    ELSE IF prices.k \in {"num", "bool", "nan"} THEN
        IF fn \in {"sma", "ema"} THEN
            IF period.k \in {"num", "bool", "undef", "nan"} THEN JsUndefined
            ELSE JsUnsupported
        ELSE LET pn == IF period.k = "undef" THEN JsNum(RInt(14))
                       ELSE ToNumber(period)
             IN  IF pn.k = "nan" THEN JsUndefined
                 ELSE IF pn.k # "num" THEN JsUnsupported
                 ELSE IF RLe(RInt(1), pn.r) THEN JsUndefined
                 ELSE IF pn.r.n = 0 THEN JsNaN
                 ELSE JsNum(RInt(100))
    ELSE IF IsNumArray(prices) THEN
        IF period.k = "undef" THEN
            IF fn = "rsi" THEN latest(rsi(RatsOf(prices), 14)) ELSE JsUndefined
        ELSE IF IsPeriod(period) THEN
            CASE fn = "sma" -> latest(sma(RatsOf(prices), period.r.n))
              [] fn = "ema" -> latest(ema(RatsOf(prices), period.r.n))
              [] fn = "rsi" -> latest(rsi(RatsOf(prices), period.r.n))
        ELSE JsUnsupported
    ELSE JsUnsupported

\* BUILTIN_FUNCTIONS.macd* / bb_* / kdj_* / wr applied to series arguments
\* that are numbers: reading .length of undefined throws, and a number has no
\* length, so the library returns the empty series and latest(...) of it is
\* undefined.
ApplyLengthless(series) ==
    IF \E i \in 1..Len(series) : series[i].k = "undef" THEN JsThrow
    ELSE IF \A i \in 1..Len(series) : series[i].k \in {"num", "bool", "nan"}
    THEN JsUndefined
    ELSE JsUnsupported

\* (func)(...args) for a built-in function name
ApplyBuiltin(funcName, args) ==
    IF funcName \in {"sma", "ema", "rsi"}
    THEN ApplyIndicator(funcName, ArgAt(args, 1), ArgAt(args, 2))
    ELSE IF funcName \in {"macd", "macd_signal", "macd_histogram",
                          "bb_upper", "bb_middle", "bb_lower"}
    THEN ApplyLengthless(<<ArgAt(args, 1)>>)
    ELSE IF funcName \in {"kdj_k", "kdj_d", "kdj_j", "wr"}
    THEN ApplyLengthless(<<ArgAt(args, 1), ArgAt(args, 2), ArgAt(args, 3)>>)
    ELSE JsUnsupported

\* safeEval: drop every character outside the white list (identifiers go,
\* numbers and punctuation stay), hand the rest to the Function constructor
StripUnsafe(t) == SelectSeq(t, LAMBDA x : x.k # "id")

\* the try / catch of safeEval around the constructed function's result r
safeEvalCaught(safeExpr, r) ==
    IF r.k = "throw"
    THEN [v |-> JsBool(FALSE),
          eff |-> [evals |-> {safeExpr}, errs |-> 1, unsup |-> FALSE,
                   calls |-> <<>>]]
    ELSE [v |-> r,
          eff |-> [evals |-> {safeExpr}, errs |-> 0,
                   unsup |-> r.k = "unsupported", calls |-> <<>>]]

safeEval(expression) ==
    LET safeExpr == StripUnsafe(expression)
    IN  safeEvalCaught(safeExpr, HostEval(safeExpr))

\* str.split(sep) on lexemes
RECURSIVE SplitOn(_, _, _)
SplitOn(t, sep, cur) ==
    IF t = <<>> THEN <<cur>>
    ELSE IF IsOp(Head(t), sep) THEN <<cur>> \o SplitOn(Tail(t), sep, <<>>)
    ELSE SplitOn(Tail(t), sep, Append(cur, Head(t)))

IsWord(x) == x.k \in {"id", "num"}

UsesVariable(t) ==
    \E i \in 1..Len(t) : t[i].k = "id" /\ t[i].s \in BuiltinVariableNames

RECURSIVE ReplaceVariables(_, _)
ReplaceVariables(t, context) ==
    IF t = <<>> THEN <<>>
    ELSE LET x == Head(t)
         IN  (IF x.k = "id" /\ x.s \in BuiltinVariableNames
              THEN VariableToks(x.s, context) ELSE <<x>>)
             \o ReplaceVariables(Tail(t), context)

RECURSIVE evaluateExpression(_, _), processFunctionCallsFrom(_, _, _)
RECURSIVE parseArgumentsFrom(_, _, _)

\* a value together with what was left behind before it was computed
AfterEff(eff, ev) == [v |-> ev.v, eff |-> EffJoin(eff, ev.eff)]

\* the last step of evaluateExpression: safeEval of the processed text
evaluateProcessed(calls) == AfterEff(calls.eff, safeEval(calls.t))

\* evaluateExpression: substitute variables, run function calls, safeEval;
\* any exception is reported and turned into false
evaluateExpression(expression, context) ==
    IF UsesVariable(expression) /\ ~context.defined
    THEN [v |-> JsBool(FALSE), eff |-> [NoEff EXCEPT !.errs = 1]]
    ELSE evaluateProcessed(processFunctionCallsFrom(
             ReplaceVariables(expression, context), 1, context))

\* parseArguments: one value per comma-separated piece, pieces k onwards
parseArgumentsFrom(pieces, k, context) ==
    IF k > Len(pieces) THEN [args |-> <<>>, threw |-> FALSE, eff |-> NoEff]
    ELSE LET argStr == pieces[k]
             one ==
                IF Len(argStr) = 1 /\ argStr[1].k = "num"
                THEN [v |-> JsNum(argStr[1].v), eff |-> NoEff]
                ELSE IF Len(argStr) = 1 /\ argStr[1].k = "id"
                        /\ argStr[1].s \in BuiltinVariableNames
                THEN [v |-> IF context.defined
                            THEN VariableValue(argStr[1].s, context)
                            ELSE JsThrow,
                      eff |-> NoEff]
                ELSE evaluateExpression(argStr, context)
         IN  IF one.v.k = "throw"
             THEN [args |-> <<>>, threw |-> TRUE, eff |-> one.eff]
             ELSE LET rest == parseArgumentsFrom(pieces, k + 1, context)
                  IN  [args |-> <<one.v>> \o rest.args, threw |-> rest.threw,
                       eff |-> EffJoin(one.eff, rest.eff)]

parseArguments(argsStr, context) ==
    IF argsStr = <<>> THEN [args |-> <<>>, threw |-> FALSE, eff |-> NoEff]
    ELSE parseArgumentsFrom(SplitOn(argsStr, ",", <<>>), 1, context)

\* the replacement callback of processFunctionCalls for a built-in name
\* String(result), or '0' when the call or its arguments threw
callReplacement(eff, result) ==
    IF result.k = "throw"
    THEN [t |-> <<Num(0)>>, eff |-> [eff EXCEPT !.errs = @ + 1]]
    ELSE [t |-> StringToks(result),
          eff |-> [eff EXCEPT !.unsup = @ \/ result.k = "unsupported"]]

\* func(...args) runs once the arguments are parsed; nothing is looked up
\* or stored around the call
callParsed(funcName, parsed) ==
    callReplacement(
        IF parsed.threw THEN parsed.eff
        ELSE [parsed.eff EXCEPT
                 !.calls = Append(@, [fn |-> funcName, args |-> parsed.args])],
        IF parsed.threw THEN JsThrow ELSE ApplyBuiltin(funcName, parsed.args))

callBuiltin(funcName, argsStr, context) ==
    callParsed(funcName, parseArguments(argsStr, context))

\* a replaced match followed by the rest of the text
Spliced(call, rest) ==
    [t |-> call.t \o rest.t, eff |-> EffJoin(call.eff, rest.eff)]

\* processFunctionCalls: /(\w+)\s*\(([^)]*)\)/g, scanning from lexeme i
processFunctionCallsFrom(t, i, context) ==
    IF i > Len(t) THEN [t |-> <<>>, eff |-> NoEff]
    ELSE LET closes == {j \in (i + 2)..Len(t) : IsOp(t[j], ")")}
         IN  IF IsWord(t[i]) /\ TokIs(t, i + 1, "(") /\ closes # {}
             THEN LET j == CHOOSE c \in closes : \A d \in closes : c <= d
                      rest == processFunctionCallsFrom(t, j + 1, context)
                  IN  IF t[i].k = "id" /\ t[i].s \in BuiltinFunctionNames
                      THEN Spliced(callBuiltin(t[i].s, SubSeq(t, i + 2, j - 1),
                                               context), rest)
                      ELSE [t |-> SubSeq(t, i, j) \o rest.t, eff |-> rest.eff]
             ELSE LET rest == processFunctionCallsFrom(t, i + 1, context)
                  IN  [t |-> <<t[i]>> \o rest.t, eff |-> rest.eff]

\* preprocessScript: drop // comments up to the line end, and or not become
\* && || !
RECURSIVE StripComments(_, _)
StripComments(t, inComment) ==
    IF t = <<>> THEN <<>>
    ELSE LET x == Head(t)
         IN  IF IsOp(x, "\n") THEN <<x>> \o StripComments(Tail(t), FALSE)
             ELSE IF inComment \/ IsOp(x, "//") THEN StripComments(Tail(t), TRUE)
             ELSE <<x>> \o StripComments(Tail(t), FALSE)

LogicalWord(x) ==
    IF x.k = "id" /\ x.s = "and" THEN Op("&&")
    ELSE IF x.k = "id" /\ x.s = "or" THEN Op("||")
    ELSE IF x.k = "id" /\ x.s = "not" THEN Op("!")
    ELSE x

preprocessScript(toks) ==
    LET processed == StripComments(toks, FALSE)
    IN  [i \in 1..Len(processed) |-> LogicalWord(processed[i])]

\* the character '=' inside the comparison lexemes, as split('=') sees it
RECURSIVE ExpandEq(_)
ExpandEq(t) ==
    IF t = <<>> THEN <<>>
    ELSE LET x == Head(t)
         IN  (CASE IsOp(x, ">=") -> <<Op(">"), Op("=")>>
                [] IsOp(x, "<=") -> <<Op("<"), Op("=")>>
                [] IsOp(x, "!=") -> <<Op("!"), Op("=")>>
                [] IsOp(x, "==") -> <<Op("="), Op("=")>>
                [] OTHER -> <<x>>)
             \o ExpandEq(Tail(t))

EmptyScriptVars == [buy |-> JsUndefined, sell |-> JsUndefined, value |-> JsUndefined]

\* one line of evaluateScript.  'buy = e', 'buy=e' and the general 'name = e'
\* branch all assign result[name] the value of the text between the first
\* and the second '='; a line without '=' is skipped.
assignVar(res, varName, ev) ==
    [res |-> IF varName = <<Id("buy")>> THEN [res EXCEPT !.buy = ev.v]
             ELSE IF varName = <<Id("sell")>> THEN [res EXCEPT !.sell = ev.v]
             ELSE IF varName = <<Id("value")>> THEN [res EXCEPT !.value = ev.v]
             ELSE res,
     eff |-> ev.eff]

evaluateLine(line, res, context) ==
    LET parts == SplitOn(ExpandEq(line), "=", <<>>)
    IN  IF Len(parts) < 2 THEN [res |-> res, eff |-> NoEff]
        ELSE assignVar(res, parts[1], evaluateExpression(parts[2], context))

\* the script variables after a line, with everything left behind so far
AfterLine(eff, one) == [res |-> one.res, eff |-> EffJoin(eff, one.eff)]

RECURSIVE evaluateLines(_, _, _, _)
evaluateLines(lines, k, acc, context) ==
    IF k > Len(lines) THEN acc
    ELSE evaluateLines(lines, k + 1,
             AfterLine(acc.eff, IF lines[k] = <<>> THEN [res |-> acc.res, eff |-> NoEff]
                                ELSE evaluateLine(lines[k], acc.res, context)),
             context)

\* evaluateScript: the lines of the script in order
evaluateScript(toks, context) ==
    evaluateLines(SplitOn(toks, "\n", <<>>), 1,
                  [res |-> EmptyScriptVars, eff |-> NoEff], context)

\* x || false
OrFalse(v) == IF Truthy(v) \/ v.k = "unsupported" THEN v ELSE JsBool(FALSE)

\* the ScriptResult of a script that evaluated to the end
ScriptResult(r) ==
    [threw |-> FALSE, buySignal |-> OrFalse(r.res.buy),
     sellSignal |-> OrFalse(r.res.sell), value |-> r.res.value,
     error |-> FALSE, eff |-> r.eff]

\* mutant of execute: the try / catch around the evaluation is missing
execute_nocatch(script, context) ==
    IF ~script.isString
    THEN [threw |-> TRUE, buySignal |-> JsUndefined, sellSignal |-> JsUndefined,
          value |-> JsUndefined, error |-> FALSE, eff |-> NoEff]
    ELSE ScriptResult(evaluateScript(preprocessScript(script.toks), context))

\* PineScriptParser.execute: the ScriptResult (error = TRUE when the error
\* field is set), whether the call threw, and what the evaluation left behind
execute(script, context) ==
    IF ~script.isString
    THEN \* script.replace is not a function: caught, reported in the result
         [threw |-> FALSE, buySignal |-> JsBool(FALSE), sellSignal |-> JsBool(FALSE),
          value |-> JsUndefined, error |-> TRUE, eff |-> NoEff]
    ELSE ScriptResult(evaluateScript(preprocessScript(script.toks), context))

\* mutant of createScriptContext: one module-level Map serves every context
createScriptContext_sharedcache(price, change, changePercent, historicalPrices, mapId) ==
    [defined |-> TRUE, price |-> price, change |-> change,
     changePercent |-> changePercent, historicalPrices |-> historicalPrices,
     indicatorCache |-> [id |-> 0, entries |-> {}]]

\* createScriptContext: the fields as given and a new, empty Map
createScriptContext(price, change, changePercent, historicalPrices, mapId) ==
    [defined |-> TRUE, price |-> price, change |-> change,
     changePercent |-> changePercent, historicalPrices |-> historicalPrices,
     indicatorCache |-> [id |-> mapId, entries |-> {}]]

----------------------------------------------------------------------------
(* The scripts, quotes and price histories the parser is driven with *)

ScriptNames ==
    {"rsi(14) < 30", "rsi(14) > 70", "buy = rsi(14) < 30",
     "foo(5) > 1", "buy = foo(5) > 1",
     "1/0 > 0", "buy = 1/0 > 0",
     "buy = close > sma(prices, 5) - 1",
     "buy = sma(prices, 1) > 2",
     "buy = ( 1 >", "buy = 3 >= 2", "buy = 1 == 2",
     "buy = change_percent > 5",
     "sell = sma() > 1 // none\nbuy = not change < 0 and close > 2",
     "not a string"}

ScriptOf(name) ==
    CASE name = "rsi(14) < 30" ->
            Text(<<Id("rsi"), Op("("), Num(14), Op(")"), Op("<"), Num(30)>>)
      [] name = "rsi(14) > 70" ->
            Text(<<Id("rsi"), Op("("), Num(14), Op(")"), Op(">"), Num(70)>>)
      [] name = "buy = rsi(14) < 30" ->
            Text(<<Id("buy"), Op("="), Id("rsi"), Op("("), Num(14), Op(")"),
                   Op("<"), Num(30)>>)
      [] name = "foo(5) > 1" ->
            Text(<<Id("foo"), Op("("), Num(5), Op(")"), Op(">"), Num(1)>>)
      [] name = "buy = foo(5) > 1" ->
            Text(<<Id("buy"), Op("="), Id("foo"), Op("("), Num(5), Op(")"),
                   Op(">"), Num(1)>>)
      [] name = "1/0 > 0" ->
            Text(<<Num(1), Op("/"), Num(0), Op(">"), Num(0)>>)
      [] name = "buy = 1/0 > 0" ->
            Text(<<Id("buy"), Op("="), Num(1), Op("/"), Num(0), Op(">"), Num(0)>>)
      [] name = "buy = close > sma(prices, 5) - 1" ->
            Text(<<Id("buy"), Op("="), Id("close"), Op(">"), Id("sma"), Op("("),
                   Id("prices"), Op(","), Num(5), Op(")"), Op("-"), Num(1)>>)
      [] name = "buy = sma(prices, 1) > 2" ->
            Text(<<Id("buy"), Op("="), Id("sma"), Op("("), Id("prices"), Op(","),
                   Num(1), Op(")"), Op(">"), Num(2)>>)
      [] name = "buy = ( 1 >" ->
            Text(<<Id("buy"), Op("="), Op("("), Num(1), Op(">")>>)
      [] name = "buy = change_percent > 5" ->
            Text(<<Id("buy"), Op("="), Id("change_percent"), Op(">"), Num(5)>>)
      [] name = "buy = 3 >= 2" ->
            Text(<<Id("buy"), Op("="), Num(3), Op(">="), Num(2)>>)
      [] name = "buy = 1 == 2" ->
            Text(<<Id("buy"), Op("="), Num(1), Op("=="), Num(2)>>)
      [] name = "sell = sma() > 1 // none\nbuy = not change < 0 and close > 2" ->
            Text(<<Id("sell"), Op("="), Id("sma"), Op("("), Op(")"), Op(">"),
                   Num(1), Op("//"), Id("none"), Op("\n"),
                   Id("buy"), Op("="), Id("not"), Id("change"), Op("<"), Num(0),
                   Id("and"), Id("close"), Op(">"), Num(2)>>)
      [] OTHER -> NotAString

\* quotes: price, change, and the changePercent handed to
\* createScriptContext with them: 100 times the change as the extension
\* computes it, or the percentage of the previous price as the test script's
\* data has it (change 0.05 on a previous price of 0.95)
Quotes ==
    {[price |-> RInt(3), change |-> Rat(-1, 20), changePercent |-> RInt(-5)],
     [price |-> RInt(1), change |-> Rat(1, 20), changePercent |-> Rat(100, 19)]}

Falling == [i \in 1..HistLen |-> HistLen + 1 - i]
Rising == [i \in 1..HistLen |-> i]
Histories == {<<>>, <<3>>, <<1>>, <<1, 2>>, Falling, Rising}

----------------------------------------------------------------------------
(* getPresetStrategies: the preset templates, each with its buy and sell   *)
(* script                                                                  *)

PresetKeys ==
    {"rsi_oversold_overbought", "macd_golden_cross", "double_ma_cross",
     "bollinger_bands", "kdj_oversold_overbought", "price_volume_breakout",
     "mean_reversion", "momentum_strategy"}

getPresetStrategies(key) ==
    CASE key = "rsi_oversold_overbought" ->
            [buyScript |->
                "rsi(14) < 30",
             sellScript |->
                "rsi(14) > 70"]
      [] key = "macd_golden_cross" ->
            [buyScript |->
                "macd(12, 26, 9) > macd_signal(12, 26, 9) and macd(12, 26, 9)[1] <= macd_signal(12, 26, 9)[1]",
             sellScript |->
                "macd(12, 26, 9) < macd_signal(12, 26, 9) and macd(12, 26, 9)[1] >= macd_signal(12, 26, 9)[1]"]
      [] key = "double_ma_cross" ->
            [buyScript |->
                "sma(5) > sma(20) and sma(5)[1] <= sma(20)[1]",
             sellScript |->
                "sma(5) < sma(20) and sma(5)[1] >= sma(20)[1]"]
      [] key = "bollinger_bands" ->
            [buyScript |->
                "close <= bb_lower(20, 2)",
             sellScript |->
                "close >= bb_upper(20, 2)"]
      [] key = "kdj_oversold_overbought" ->
            [buyScript |->
                "kdj_k(9, 3, 3) < 20 and kdj_d(9, 3, 3) < 20",
             sellScript |->
                "kdj_k(9, 3, 3) > 80 and kdj_d(9, 3, 3) > 80"]
      [] key = "price_volume_breakout" ->
            [buyScript |->
                "close > highest(high, 20)[1] and volume > sma(volume, 10) * 1.5",
             sellScript |->
                "close < lowest(low, 20)[1]"]
      [] key = "mean_reversion" ->
            [buyScript |->
                "(close - sma(20)) / sma(20) < -0.05",
             sellScript |->
                "(close - sma(20)) / sma(20) > 0.05"]
      [] key = "momentum_strategy" ->
            [buyScript |->
                "roc(10) > 5 and rsi(14) > 50",
             sellScript |->
                "roc(10) < -5 and rsi(14) < 50"]

PresetScripts ==
    UNION {{getPresetStrategies(key).buyScript, getPresetStrategies(key).sellScript} :
              key \in PresetKeys}

\* the lexemes of the preset scripts
PresetScriptOf(name) ==
    CASE name =
            "rsi(14) < 30" ->
            Text(<<Id("rsi"), Op("("), Num(14), Op(")"), Op("<"), Num(30)>>)
      [] name =
            "rsi(14) > 70" ->
            Text(<<Id("rsi"), Op("("), Num(14), Op(")"), Op(">"), Num(70)>>)
      [] name =
            "macd(12, 26, 9) > macd_signal(12, 26, 9) and macd(12, 26, 9)[1] <= macd_signal(12, 26, 9)[1]" ->
            Text(<<Id("macd"), Op("("), Num(12), Op(","), Num(26), Op(","),
                   Num(9), Op(")"), Op(">"), Id("macd_signal"), Op("("),
                   Num(12), Op(","), Num(26), Op(","), Num(9), Op(")"),
                   Id("and"), Id("macd"), Op("("), Num(12), Op(","),
                   Num(26), Op(","), Num(9), Op(")"), Op("["), Num(1),
                   Op("]"), Op("<="), Id("macd_signal"), Op("("), Num(12),
                   Op(","), Num(26), Op(","), Num(9), Op(")"), Op("["),
                   Num(1), Op("]")>>)
      [] name =
            "macd(12, 26, 9) < macd_signal(12, 26, 9) and macd(12, 26, 9)[1] >= macd_signal(12, 26, 9)[1]" ->
            Text(<<Id("macd"), Op("("), Num(12), Op(","), Num(26), Op(","),
                   Num(9), Op(")"), Op("<"), Id("macd_signal"), Op("("),
                   Num(12), Op(","), Num(26), Op(","), Num(9), Op(")"),
                   Id("and"), Id("macd"), Op("("), Num(12), Op(","),
                   Num(26), Op(","), Num(9), Op(")"), Op("["), Num(1),
                   Op("]"), Op(">="), Id("macd_signal"), Op("("), Num(12),
                   Op(","), Num(26), Op(","), Num(9), Op(")"), Op("["),
                   Num(1), Op("]")>>)
      [] name =
            "sma(5) > sma(20) and sma(5)[1] <= sma(20)[1]" ->
            Text(<<Id("sma"), Op("("), Num(5), Op(")"), Op(">"), Id("sma"),
                   Op("("), Num(20), Op(")"), Id("and"), Id("sma"),
                   Op("("), Num(5), Op(")"), Op("["), Num(1), Op("]"),
                   Op("<="), Id("sma"), Op("("), Num(20), Op(")"), Op("["),
                   Num(1), Op("]")>>)
      [] name =
            "sma(5) < sma(20) and sma(5)[1] >= sma(20)[1]" ->
            Text(<<Id("sma"), Op("("), Num(5), Op(")"), Op("<"), Id("sma"),
                   Op("("), Num(20), Op(")"), Id("and"), Id("sma"),
                   Op("("), Num(5), Op(")"), Op("["), Num(1), Op("]"),
                   Op(">="), Id("sma"), Op("("), Num(20), Op(")"), Op("["),
                   Num(1), Op("]")>>)
      [] name =
            "close <= bb_lower(20, 2)" ->
            Text(<<Id("close"), Op("<="), Id("bb_lower"), Op("("), Num(20),
                   Op(","), Num(2), Op(")")>>)
      [] name =
            "close >= bb_upper(20, 2)" ->
            Text(<<Id("close"), Op(">="), Id("bb_upper"), Op("("), Num(20),
                   Op(","), Num(2), Op(")")>>)
      [] name =
            "kdj_k(9, 3, 3) < 20 and kdj_d(9, 3, 3) < 20" ->
            Text(<<Id("kdj_k"), Op("("), Num(9), Op(","), Num(3), Op(","),
                   Num(3), Op(")"), Op("<"), Num(20), Id("and"),
                   Id("kdj_d"), Op("("), Num(9), Op(","), Num(3), Op(","),
                   Num(3), Op(")"), Op("<"), Num(20)>>)
      [] name =
            "kdj_k(9, 3, 3) > 80 and kdj_d(9, 3, 3) > 80" ->
            Text(<<Id("kdj_k"), Op("("), Num(9), Op(","), Num(3), Op(","),
                   Num(3), Op(")"), Op(">"), Num(80), Id("and"),
                   Id("kdj_d"), Op("("), Num(9), Op(","), Num(3), Op(","),
                   Num(3), Op(")"), Op(">"), Num(80)>>)
      [] name =
            "close > highest(high, 20)[1] and volume > sma(volume, 10) * 1.5" ->
            Text(<<Id("close"), Op(">"), Id("highest"), Op("("),
                   Id("high"), Op(","), Num(20), Op(")"), Op("["), Num(1),
                   Op("]"), Id("and"), Id("volume"), Op(">"), Id("sma"),
                   Op("("), Id("volume"), Op(","), Num(10), Op(")"),
                   Op("*"), NumR(Rat(15, 10))>>)
      [] name =
            "close < lowest(low, 20)[1]" ->
            Text(<<Id("close"), Op("<"), Id("lowest"), Op("("), Id("low"),
                   Op(","), Num(20), Op(")"), Op("["), Num(1), Op("]")>>)
      [] name =
            "(close - sma(20)) / sma(20) < -0.05" ->
            Text(<<Op("("), Id("close"), Op("-"), Id("sma"), Op("("),
                   Num(20), Op(")"), Op(")"), Op("/"), Id("sma"), Op("("),
                   Num(20), Op(")"), Op("<"), Op("-"), NumR(Rat(5, 100))>>)
      [] name =
            "(close - sma(20)) / sma(20) > 0.05" ->
            Text(<<Op("("), Id("close"), Op("-"), Id("sma"), Op("("),
                   Num(20), Op(")"), Op(")"), Op("/"), Id("sma"), Op("("),
                   Num(20), Op(")"), Op(">"), NumR(Rat(5, 100))>>)
      [] name =
            "roc(10) > 5 and rsi(14) > 50" ->
            Text(<<Id("roc"), Op("("), Num(10), Op(")"), Op(">"), Num(5),
                   Id("and"), Id("rsi"), Op("("), Num(14), Op(")"),
                   Op(">"), Num(50)>>)
      [] name =
            "roc(10) < -5 and rsi(14) < 50" ->
            Text(<<Id("roc"), Op("("), Num(10), Op(")"), Op("<"), Op("-"),
                   Num(5), Id("and"), Id("rsi"), Op("("), Num(14), Op(")"),
                   Op("<"), Num(50)>>)

----------------------------------------------------------------------------
(* The indicator library driven on bounded inputs: each action is one call *)
(* of an exported function, recorded with its arguments and its result.    *)

SeqsUpTo(S, n) == UNION {[1..k -> S] : k \in 0..n}
PriceSeries == SeqsUpTo(1..MaxPrice, MaxLen)
Periods == 1..MaxPeriod

ToRat(s) == [i \in 1..Len(s) |-> RInt(s[i])]

NoCross == [bullishCross |-> FALSE, bearishCross |-> FALSE]
\* a, b, c: the series arguments in order; args: the arguments after period
NoCall == [fn |-> "none", a |-> <<>>, b |-> <<>>, c |-> <<>>, period |-> 0,
           args |-> <<>>, out |-> <<>>, cross |-> NoCross]

KdjSeries == SeqsUpTo(1..MaxKdjPrice, MaxKdjLen)
Smoothings == {1, 3}

CallSma ==
    /\ UNCHANGED <<parsers, strategies, batch, view, hostVars>>
    /\ indCall = NoCall
    /\ \E prices \in PriceSeries, period \in Periods :
        indCall' = [NoCall EXCEPT !.fn = "sma", !.a = prices, !.period = period,
                                  !.out = sma(ToRat(prices), period)]

CallEma ==
    /\ UNCHANGED <<parsers, strategies, batch, view, hostVars>>
    /\ indCall = NoCall
    /\ \E prices \in PriceSeries, period \in Periods :
        indCall' = [NoCall EXCEPT !.fn = "ema", !.a = prices, !.period = period,
                                  !.out = ema(ToRat(prices), period)]

CallRsi ==
    /\ UNCHANGED <<parsers, strategies, batch, view, hostVars>>
    /\ indCall = NoCall
    /\ \E prices \in PriceSeries, period \in Periods :
        indCall' = [NoCall EXCEPT !.fn = "rsi", !.a = prices, !.period = period,
                                  !.out = rsi(ToRat(prices), period)]

CallCrossover ==
    /\ UNCHANGED <<parsers, strategies, batch, view, hostVars>>
    /\ indCall = NoCall
    /\ \E series1 \in PriceSeries, series2 \in PriceSeries :
        indCall' = [NoCall EXCEPT !.fn = "crossover", !.a = series1, !.b = series2,
                                  !.cross = crossover(ToRat(series1), ToRat(series2))]

StdDevs == {1, 2}

CallBollingerBands ==
    /\ UNCHANGED <<parsers, strategies, batch, view, hostVars>>
    /\ indCall = NoCall
    /\ \E prices \in PriceSeries, period \in Periods, stdDev \in StdDevs :
        indCall' = [NoCall EXCEPT !.fn = "bollingerBands", !.a = prices,
                                  !.period = period, !.args = <<stdDev>>,
                                  !.out = bollingerBands(ToRat(prices), period, stdDev)]

CallMacd ==
    /\ UNCHANGED <<parsers, strategies, batch, view, hostVars>>
    /\ indCall = NoCall
    /\ \E prices \in PriceSeries, fastPeriod \in Periods, slowPeriod \in Periods,
          signalPeriod \in Periods :
        indCall' = [NoCall EXCEPT !.fn = "macd", !.a = prices,
                                  !.args = <<fastPeriod, slowPeriod, signalPeriod>>,
                                  !.out = macd(ToRat(prices), fastPeriod, slowPeriod,
                                               signalPeriod)]

CallKdj ==
    /\ UNCHANGED <<parsers, strategies, batch, view, hostVars>>
    /\ indCall = NoCall
    /\ \E highs \in KdjSeries, lows \in KdjSeries, closes \in KdjSeries,
          period \in Periods, kSmooth \in Smoothings, dSmooth \in Smoothings :
        indCall' = [NoCall EXCEPT !.fn = "kdj", !.a = highs, !.b = lows,
                                  !.c = closes, !.period = period,
                                  !.args = <<kSmooth, dSmooth>>,
                                  !.out = kdj(ToRat(highs), ToRat(lows), ToRat(closes),
                                              period, kSmooth, dSmooth)]

CallWilliamsR ==
    /\ UNCHANGED <<parsers, strategies, batch, view, hostVars>>
    /\ indCall = NoCall
    /\ \E highs \in KdjSeries, lows \in KdjSeries, closes \in KdjSeries,
          period \in Periods :
        indCall' = [NoCall EXCEPT !.fn = "williamsR", !.a = highs, !.b = lows,
                                  !.c = closes, !.period = period,
                                  !.out = williamsR(ToRat(highs), ToRat(lows),
                                                    ToRat(closes), period)]

\* the caller takes the result; the library keeps no state between calls
ReturnInd ==
    /\ UNCHANGED <<parsers, strategies, batch, view, hostVars>>
    /\ indCall # NoCall
    /\ indCall' = NoCall

----------------------------------------------------------------------------
(* extension.ts: the stored strategies and the signal check that runs over *)
(* them after every refresh of the quotes                                  *)

\* the length of the price history the signal check fabricates
FillLen == 20

NoScript == [present |-> FALSE, enabled |-> FALSE, buyScript |-> "", sellScript |-> ""]
ScriptPair(enabled, buy, sell) ==
    [present |-> TRUE, enabled |-> enabled, buyScript |-> buy, sellScript |-> sell]

NoCondition == [enabled |-> FALSE, hasPrice |-> FALSE, priceThreshold |-> RInt(0),
                hasChange |-> FALSE, changeThreshold |-> RInt(0)]
NoSignals == [present |-> FALSE, buyConditions |-> NoCondition,
              sellConditions |-> NoCondition, showPopup |-> FALSE]

ScriptStrategy(enabled, buy, sell, symbols) ==
    [type |-> "script", script |-> ScriptPair(enabled, buy, sell),
     signals |-> NoSignals, symbols |-> symbols]

ThresholdStrategy(buy, sell, showPopup, symbols) ==
    [type |-> "simple", script |-> NoScript,
     signals |-> [present |-> TRUE, buyConditions |-> buy, sellConditions |-> sell,
                  showPopup |-> showPopup],
     symbols |-> symbols]

ChangeCondition(t) == [NoCondition EXCEPT !.enabled = TRUE, !.hasChange = TRUE,
                                          !.changeThreshold = t]

\* the strategies a user can have stored
StrategyPool ==
    {ScriptStrategy(TRUE, "rsi(14) < 30", "rsi(14) > 70", <<"A", "B">>),
     ScriptStrategy(TRUE, "not a string", "buy = 1/0 > 0", <<"A", "B">>),
     ScriptStrategy(TRUE, "buy = ( 1 >", "", <<"B">>),
     ScriptStrategy(FALSE, "buy = 1/0 > 0", "", <<"A">>),
     ScriptStrategy(TRUE, "", "rsi(14) > 70", <<"A">>),
     ScriptStrategy(TRUE, "buy = close > sma(prices, 5) - 1", "", <<"A">>),
     ThresholdStrategy(ChangeCondition(Rat(-1, 20)), ChangeCondition(Rat(1, 20)),
                       TRUE, <<"A", "B">>),
     ThresholdStrategy(ChangeCondition(Rat(-1, 10)), ChangeCondition(Rat(1, 10)),
                       TRUE, <<"A">>)}

Symbols == {"A", "B"}
NoQuote == [price |-> RInt(0), change |-> RInt(0), changePercent |-> RInt(0)]
\* the quotes of one refresh: a quote per symbol, NoQuote where none came
QuoteMaps == [Symbols -> Quotes \cup {NoQuote}]

\* the context the signal check builds for a quote
batchContext(quote) ==
    [defined |-> TRUE, price |-> quote.price, change |-> quote.change,
     changePercent |-> RMul(quote.change, RInt(100)),
     historicalPrices |-> [i \in 1..FillLen |-> quote.price],
     indicatorCache |-> [id |-> 1, entries |-> {}]]

\* execute tabulated over the contexts of the signal check
BatchExecuteTable ==
    [q \in Quotes, name \in ScriptNames |-> execute(ScriptOf(name), batchContext(q))]

\* ScriptResult has no field named success
resultSuccess(out) == JsUndefined

\* one script of checkScriptSignalsAndNotify: the execute call and the
\* notification raised when (result.success && result.value)
notifyOn(name, out, signalType) ==
    [threw |-> out.threw,
     execs |-> <<[script |-> name, threw |-> out.threw]>>,
     notes |-> IF ~out.threw /\ Truthy(resultSuccess(out)) /\ Truthy(out.value)
               THEN <<signalType>> ELSE <<>>]

\* mutant of checkOneScript: an absent script counts as a raised signal
checkOneScript_absentfires(name, quote, signalType) ==
    IF name = "" THEN [threw |-> FALSE, execs |-> <<>>, notes |-> <<signalType>>]
    ELSE notifyOn(name, BatchExecuteTable[quote, name], signalType)

checkOneScript(name, quote, signalType) ==
    IF name = "" THEN [threw |-> FALSE, execs |-> <<>>, notes |-> <<>>]
    ELSE notifyOn(name, BatchExecuteTable[quote, name], signalType)

\* checkScriptSignalsAndNotify: everything runs inside try / catch
\* the sell script runs unless the buy script's check threw
buyThenSell(buy, sell) ==
    IF buy.threw
    THEN [threw |-> FALSE, execs |-> buy.execs, notes |-> buy.notes]
    ELSE [threw |-> FALSE, execs |-> buy.execs \o sell.execs,
          notes |-> buy.notes \o sell.notes]

checkScriptSignalsAndNotify(strategy, quote) ==
    IF ~strategy.script.present THEN [threw |-> FALSE, execs |-> <<>>, notes |-> <<>>]
    ELSE buyThenSell(checkOneScript(strategy.script.buyScript, quote, "buy"),
                     checkOneScript(strategy.script.sellScript, quote, "sell"))

\* checkTraditionalSignalsAndNotify: comparisons against the thresholds
checkTraditionalSignalsAndNotify(strategy, quote) ==
    LET buyConditions == strategy.signals.buyConditions
        sellConditions == strategy.signals.sellConditions
        shouldBuy ==
            /\ buyConditions.enabled
            /\ \/ buyConditions.hasPrice /\ RLe(quote.price, buyConditions.priceThreshold)
               \/ buyConditions.hasChange /\ RLe(quote.change, buyConditions.changeThreshold)
        shouldSell ==
            /\ sellConditions.enabled
            /\ \/ sellConditions.hasPrice /\ RLe(sellConditions.priceThreshold, quote.price)
               \/ sellConditions.hasChange /\ RLe(sellConditions.changeThreshold, quote.change)
    IN  [threw |-> FALSE, execs |-> <<>>,
         notes |-> (IF shouldBuy /\ strategy.signals.showPopup THEN <<"buy">> ELSE <<>>)
                   \o (IF shouldSell /\ strategy.signals.showPopup THEN <<"sell">> ELSE <<>>)]

UsesScript(strategy) ==
    strategy.type = "script" /\ strategy.script.present /\ strategy.script.enabled

NoBatch == [ran |-> FALSE, quotes |-> [sym \in Symbols |-> NoQuote],
            evaluated |-> <<>>, execs |-> <<>>, notes |-> <<>>, aborted |-> FALSE]

\* the loops of checkAndNotifySignals from strategy k, symbol j onwards; an
\* exception escaping the check of one pair ends the whole call
RECURSIVE notifyFrom(_, _, _, _, _), notifyNext(_, _, _, _, _)

\* the record of the call after the check of strategy k on symbol
checkedPair(acc, k, symbol, one) ==
    [acc EXCEPT !.evaluated = Append(@, <<k, symbol>>),
                !.execs = @ \o one.execs,
                !.notes = @ \o [n \in 1..Len(one.notes) |->
                                  <<k, symbol, one.notes[n]>>],
                !.aborted = one.threw]

notifyNext(strats, quotes, k, j, next) ==
    IF next.aborted THEN next ELSE notifyFrom(strats, quotes, k, j + 1, next)

notifyFrom(strats, quotes, k, j, acc) ==
    IF k > Len(strats) THEN acc
    ELSE LET strategy == strats[k]
         IN  IF ~strategy.signals.present /\ ~UsesScript(strategy)
             THEN notifyFrom(strats, quotes, k + 1, 1, acc)
             ELSE IF j > Len(strategy.symbols)
             THEN notifyFrom(strats, quotes, k + 1, 1, acc)
             ELSE LET symbol == strategy.symbols[j]
                      quote == quotes[symbol]
                  IN  IF quote = NoQuote
                      THEN notifyFrom(strats, quotes, k, j + 1, acc)
                      ELSE notifyNext(strats, quotes, k, j,
                               checkedPair(acc, k, symbol,
                                   IF UsesScript(strategy)
                                   THEN checkScriptSignalsAndNotify(strategy, quote)
                                   ELSE checkTraditionalSignalsAndNotify(strategy, quote)))

\* the threshold part of checkSignals: the change thresholds are divided by
\* 100 before the comparison
checkThresholds(quote, strategy) ==
    IF ~strategy.signals.present THEN <<>>
    ELSE LET buyConditions == strategy.signals.buyConditions
             sellConditions == strategy.signals.sellConditions
             buySignal ==
                /\ buyConditions.enabled
                /\ \/ buyConditions.hasPrice
                         /\ RLe(quote.price, buyConditions.priceThreshold)
                   \/ buyConditions.hasChange
                         /\ RLe(quote.change,
                                RDiv(buyConditions.changeThreshold, RInt(100)))
             sellSignal ==
                /\ sellConditions.enabled
                /\ \/ sellConditions.hasPrice
                         /\ RLe(sellConditions.priceThreshold, quote.price)
                   \/ sellConditions.hasChange
                         /\ RLe(RDiv(sellConditions.changeThreshold, RInt(100)),
                                quote.change)
         IN  (IF buySignal THEN <<"buy">> ELSE <<>>)
             \o (IF sellSignal THEN <<"sell">> ELSE <<>>)

\* the try / catch of checkScriptSignals: an exception from either script
\* falls back to the thresholds of the strategy
scriptsOrFallback(buy, sell, fallback) ==
    IF buy.threw THEN [execs |-> buy.execs, signals |-> fallback]
    ELSE IF sell.threw
    THEN [execs |-> buy.execs \o sell.execs, signals |-> fallback]
    ELSE [execs |-> buy.execs \o sell.execs, signals |-> buy.notes \o sell.notes]

\* StrategiesProvider.checkScriptSignals
checkScriptSignals(quote, strategy) ==
    IF ~strategy.script.present THEN [execs |-> <<>>, signals |-> <<>>]
    ELSE scriptsOrFallback(checkOneScript(strategy.script.buyScript, quote, "buy"),
                           checkOneScript(strategy.script.sellScript, quote, "sell"),
                           checkThresholds(quote, strategy))

\* StrategiesProvider.checkSignals
checkSignals(quote, strategy) ==
    IF UsesScript(strategy) THEN checkScriptSignals(quote, strategy)
    ELSE [execs |-> <<>>, signals |-> checkThresholds(quote, strategy)]

NoView == [ran |-> FALSE, quotes |-> [sym \in Symbols |-> NoQuote], rows |-> <<>>]

\* the checks of getChildren: every stock with a quote against every strategy
\* that lists it and has signals or an enabled script.  One row per check,
\* listed strategy by strategy; the view groups the rows by stock, which
\* changes no row.
RECURSIVE rowsFrom(_, _, _, _)
rowsFrom(strats, quotes, k, j) ==
    IF k > Len(strats) THEN <<>>
    ELSE IF j > Len(strats[k].symbols) THEN rowsFrom(strats, quotes, k + 1, 1)
    ELSE IF quotes[strats[k].symbols[j]] = NoQuote
            \/ (~strats[k].signals.present /\ ~UsesScript(strats[k]))
    THEN rowsFrom(strats, quotes, k, j + 1)
    ELSE <<[k |-> k, symbol |-> strats[k].symbols[j],
            check |-> checkSignals(quotes[strats[k].symbols[j]], strats[k])]>>
         \o rowsFrom(strats, quotes, k, j + 1)

\* store.setStrategies, from the strategy commands.  The signal check only
\* awaits functions that never suspend, so no command runs in its middle.
SetStrategies ==
    /\ ~batch.ran /\ ~view.ran
    /\ \E list \in SeqsUpTo(StrategyPool, MaxStrategies) : strategies' = list
    /\ UNCHANGED <<indCall, parsers, batch, view, hostVars>>

\* checkAndNotifySignals(quotes), recorded with what it did
CheckAndNotifySignals ==
    /\ ~batch.ran /\ ~view.ran
    /\ \E quotes \in QuoteMaps :
          batch' = notifyFrom(strategies, quotes, 1, 1,
                              [NoBatch EXCEPT !.ran = TRUE, !.quotes = quotes])
    /\ UNCHANGED <<indCall, parsers, strategies, view, hostVars>>

\* the call returns to refreshAll
FinishCheck ==
    /\ batch.ran
    /\ batch' = NoBatch
    /\ UNCHANGED <<indCall, parsers, strategies, view, hostVars>>

\* StrategiesProvider.getChildren, recorded with the signals it shows
GetChildren ==
    /\ ~batch.ran /\ ~view.ran
    /\ \E quotes \in QuoteMaps :
          view' = [ran |-> TRUE, quotes |-> quotes,
                   rows |-> rowsFrom(strategies, quotes, 1, 1)]
    /\ UNCHANGED <<indCall, parsers, strategies, batch, hostVars>>

\* the tree items are handed to the editor
FinishView ==
    /\ view.ran
    /\ view' = NoView
    /\ UNCHANGED <<indCall, parsers, strategies, batch, hostVars>>

NextBatch ==
    \/ SetStrategies \/ CheckAndNotifySignals \/ FinishCheck
    \/ GetChildren \/ FinishView

----------------------------------------------------------------------------
(* Parser objects.  Each holds the context it was constructed with and the  *)
(* outcome of its latest execute call.                                      *)

ParserIds == {1, 2}

\* a parser that has not run a script holds no result
NoResult ==
    [threw |-> FALSE, buySignal |-> JsBool(FALSE), sellSignal |-> JsBool(FALSE),
     value |-> JsUndefined, error |-> FALSE, eff |-> NoEff]
NoRun == [script |-> "", out |-> NoResult]
NoParser == [made |-> FALSE, context |-> NoContext, run |-> NoRun]

\* new Map(): an object no other live context holds
FreshMapId(i) ==
    LET used == {parsers[j].context.indicatorCache.id : j \in ParserIds \ {i}}
    IN  CHOOSE m \in 1..Cardinality(ParserIds) : m \notin used

\* createScriptContext(...) followed by new PineScriptParser(context)
NewParser(i) ==
    \E q \in Quotes, h \in Histories :
        /\ parsers' = [parsers EXCEPT ![i] =
               [made |-> TRUE,
                context |-> createScriptContext(q.price, q.change, q.changePercent,
                                                ToRat(h), FreshMapId(i)),
                run |-> NoRun]]
        /\ UNCHANGED <<indCall, strategies, batch, view, hostVars>>

\* new PineScriptParser() without a context, as the test script does
NewParserNoContext(i) ==
    /\ parsers' = [parsers EXCEPT ![i] =
           [made |-> TRUE, context |-> NoContext, run |-> NoRun]]
    /\ UNCHANGED <<indCall, strategies, batch, view, hostVars>>

\* the contexts a parser can hold, and execute tabulated over them (execute
\* is a function of the script and the context; the table is computed once)
Contexts ==
    {NoContext} \cup
    {createScriptContext(q.price, q.change, q.changePercent, ToRat(h), m) :
        q \in Quotes, h \in Histories, m \in 1..Cardinality(ParserIds)}

ExecuteTable ==
    [c \in Contexts, name \in ScriptNames |-> execute(ScriptOf(name), c)]

\* mutant of executed: the evaluation drains the price history it reads
executed_historydrained(parser, name) ==
    [parser EXCEPT
        !.run = [script |-> name, out |-> ExecuteTable[parser.context, name]],
        !.context = IF @.defined THEN [@ EXCEPT !.historicalPrices = <<>>] ELSE @]

\* the parser object after execute(script).  No statement of the class
\* assigns this.context or a field of it; the built-in variables hand the
\* context's own arrays to the built-in functions (parseArguments), which
\* read them with slice, reduce and spread only.  What is left of the call is
\* its return value.
executed(parser, name) ==
    [parser EXCEPT
        !.run = [script |-> name, out |-> ExecuteTable[parser.context, name]]]

\* execute tabulated over the preset scripts
PresetExecuteTable ==
    [c \in Contexts, name \in PresetScripts |-> execute(PresetScriptOf(name), c)]

\* parser.execute(preset.buyScript) / parser.execute(preset.sellScript): a
\* preset of getPresetStrategies() run verbatim
ExecutePreset(i) ==
    /\ parsers[i].made
    /\ \E key \in PresetKeys :
       \E name \in {getPresetStrategies(key).buyScript,
                    getPresetStrategies(key).sellScript} :
          parsers' = [parsers EXCEPT ![i].run =
              [script |-> name, out |-> PresetExecuteTable[parsers[i].context, name]]]
    /\ UNCHANGED <<indCall, strategies, batch, view, hostVars>>

\* parser.execute(script)
Execute(i) ==
    /\ parsers[i].made
    /\ \E name \in ScriptNames :
          parsers' = [parsers EXCEPT ![i] = executed(parsers[i], name)]
    /\ UNCHANGED <<indCall, strategies, batch, view, hostVars>>

----------------------------------------------------------------------------
(* strategyDashboard.ts: the dashboard panel, the signal history it keeps  *)
(* and its update timer.  A panel object is reachable through              *)
(* StrategyDashboardPanel.currentPanel and through the callbacks of its    *)
(* own webview panel only.                                                 *)

\* signal records ever created, and panels ever created
MaxSignals == 102
MaxPanels == 2
\* the history keeps at most this many records
HistoryLimit == 100

PanelIds == 1..MaxPanels

\* state: "none" before the constructor ran, then "live", then "disposed";
\* updateTimer: _updateTimer holds a handle; timers: the interval timers of
\* this panel that are live
NoPanel == [state |-> "none", signalHistory |-> <<>>, updateTimer |-> FALSE,
            timers |-> 0]

\* currentPanel = 0 is undefined; clock numbers the signal records by age
NoDash == [currentPanel |-> 0, panels |-> [p \in PanelIds |-> NoPanel], clock |-> 0]

\* mutant of startAutoUpdate: the timer already running is not cleared
startAutoUpdate_noclear(panel) ==
    [panel EXCEPT !.timers = @ + 1, !.updateTimer = TRUE]

\* _startAutoUpdate: clearInterval of the handle held, then a new interval
startAutoUpdate(panel) ==
    [panel EXCEPT !.timers = (IF panel.updateTimer THEN @ - 1 ELSE @) + 1,
                  !.updateTimer = TRUE]

\* mutant of addSignalToHistory: the history is never cut
addSignalToHistory_untrimmed(panel, signal) ==
    startAutoUpdate([panel EXCEPT !.signalHistory = <<signal>> \o @])

\* addSignalToHistory: unshift, slice(0, 100) when longer, restart the timer
addSignalToHistory(panel, signal) ==
    startAutoUpdate(
        [panel EXCEPT !.signalHistory =
            IF Len(@) + 1 > HistoryLimit
            THEN SubSeq(<<signal>> \o @, 1, HistoryLimit)
            ELSE <<signal>> \o @])

\* the panels whose webview is open
LivePanels == {p \in PanelIds : dash.panels[p].state = "live"}

\* StrategyDashboardPanel.createOrShow: reveal the current panel, or
\* construct one (the constructor starts the update timer)
CreateOrShow ==
    /\ \/ /\ dash.currentPanel # 0
          /\ UNCHANGED dash
       \/ /\ dash.currentPanel = 0
          /\ \E p \in PanelIds :
                /\ dash.panels[p].state = "none"
                /\ \A q \in PanelIds : q < p => dash.panels[q].state # "none"
                /\ dash' = [dash EXCEPT
                       !.panels[p] = startAutoUpdate([NoPanel EXCEPT !.state = "live"]),
                       !.currentPanel = p]
    /\ UNCHANGED <<engineVars, watch, auto, fetch>>

\* StrategyDashboardPanel.addSignal: a record is made and added only while a
\* panel is current
AddSignal ==
    /\ dash.clock < MaxSignals
    /\ IF dash.currentPanel = 0 THEN UNCHANGED dash
       ELSE dash' = [dash EXCEPT
                !.panels[dash.currentPanel] = addSignalToHistory(@, dash.clock + 1),
                !.clock = @ + 1]
    /\ UNCHANGED <<engineVars, watch, auto, fetch>>

\* the 'clearHistory' message of a panel's webview: _clearSignalHistory
ClearSignalHistory ==
    /\ \E p \in LivePanels :
          dash' = [dash EXCEPT !.panels[p].signalHistory = <<>>]
    /\ UNCHANGED <<engineVars, watch, auto, fetch>>

\* dispose, run when the webview panel is closed.  The disposed object is no
\* longer referenced; its history leaves the state with it.
Dispose ==
    /\ \E p \in LivePanels :
          dash' = [dash EXCEPT
              !.currentPanel = 0,
              !.panels[p] = [state |-> "disposed", signalHistory |-> <<>>,
                             updateTimer |-> FALSE,
                             timers |-> IF dash.panels[p].updateTimer
                                        THEN dash.panels[p].timers - 1
                                        ELSE dash.panels[p].timers]]
    /\ UNCHANGED <<engineVars, watch, auto, fetch>>

NextDash == CreateOrShow \/ AddSignal \/ ClearSignalHistory \/ Dispose

----------------------------------------------------------------------------
(* extension.ts: the addWatchStock command over the stored watchlist.  The *)
(* watchlist is an array kept by the editor's Memento: get hands out the   *)
(* array it holds (or the default given when the key is absent), update    *)
(* keeps the array it is given or a JSON copy of it, depending on the      *)
(* editor's version.                                                       *)

\* invocations of the command
MaxCommands == 3

CmdIds == 1..MaxCommands
\* array objects: one held by the Memento, one per command, one being made
ArrayIds == 1..(MaxCommands + 2)

\* pc: "idle", "input" (awaiting showInputBox), "fetching" (awaiting
\* fetchStockName), "done"; list: the array the command holds, 0 for none
NoCmd == [pc |-> "idle", symbol |-> "", list |-> 0]
DoneCmd == [pc |-> "done", symbol |-> "", list |-> 0]

\* stored = 0: the key is absent
NoWatch == [arrays |-> [a \in ArrayIds |-> <<>>], stored |-> 0,
            cmds |-> [c \in CmdIds |-> NoCmd]]

\* a new array object: one nothing refers to
FreshArray(w) ==
    CHOOSE a \in ArrayIds :
        /\ a # w.stored
        /\ \A c \in CmdIds : w.cmds[c].list # a
        /\ \A b \in ArrayIds :
              (b # w.stored /\ \A c \in CmdIds : w.cmds[c].list # b) => a <= b

\* store.getWatchlist(): memento.get(WATCH_KEY, [])
getWatchlist(w) ==
    IF w.stored # 0 THEN w
    ELSE [w EXCEPT !.arrays[FreshArray(w)] = <<>>]

gotWatchlist(w) == IF w.stored # 0 THEN w.stored ELSE FreshArray(w)

\* store.setWatchlist(data): memento.update(WATCH_KEY, data)
setWatchlist(w, data, keepsObject) ==
    IF keepsObject THEN [w EXCEPT !.stored = data]
    ELSE [w EXCEPT !.arrays[FreshArray(w)] = w.arrays[data],
                   !.stored = FreshArray(w)]

\* list.some(s => s.symbol === symbol)
HasSymbol(list, symbol) == \E n \in 1..Len(list) : list[n] = symbol

\* the command is invoked and shows its input box
AddWatchStock(c) ==
    /\ watch.cmds[c].pc = "idle"
    /\ watch' = [watch EXCEPT !.cmds[c].pc = "input"]
    /\ UNCHANGED <<engineVars, dash, auto, fetch>>

\* the input box resolves: nothing entered, a symbol already in the list, or
\* a new symbol, for which the name fetch starts
EnterSymbol(c) ==
    /\ watch.cmds[c].pc = "input"
    /\ \E symbol \in Symbols \cup {""} :
          watch' =
              IF symbol = "" THEN [watch EXCEPT !.cmds[c] = DoneCmd]
              ELSE IF HasSymbol(getWatchlist(watch).arrays[gotWatchlist(watch)], symbol)
              THEN [watch EXCEPT !.cmds[c] = DoneCmd]
              ELSE [getWatchlist(watch) EXCEPT
                       !.cmds[c] = [pc |-> "fetching", symbol |-> symbol,
                                    list |-> gotWatchlist(watch)]]
    /\ UNCHANGED <<engineVars, dash, auto, fetch>>

\* fetchStockName resolves: list.push, then store.setWatchlist(list)
NameFetched(c) ==
    /\ watch.cmds[c].pc = "fetching"
    /\ \E keepsObject \in BOOLEAN :
          watch' = [setWatchlist(
                        [watch EXCEPT !.arrays[watch.cmds[c].list] =
                                          Append(@, watch.cmds[c].symbol)],
                        watch.cmds[c].list, keepsObject)
                    EXCEPT !.cmds[c] = DoneCmd]
    /\ UNCHANGED <<engineVars, dash, auto, fetch>>

NextWatch == \E c \in CmdIds : AddWatchStock(c) \/ EnterSymbol(c) \/ NameFetched(c)

----------------------------------------------------------------------------
(* extension.ts: the auto-refresh timer.  refreshTimer is a module-level    *)
(* variable; setupAutoRefresh runs at activation and on every change of    *)
(* the two settings.                                                       *)

\* timer disposables pushed to context.subscriptions
MaxTimerDisposables == 8

RefreshIntervals == {-1, 0, 1, 5}

\* phase: "inactive", "active", "disposed" (subscriptions disposed);
\* refreshTimer: the variable holds a handle; timers: live interval timers
NoAuto == [phase |-> "inactive", autoRefresh |-> TRUE, refreshInterval |-> 5,
           refreshTimer |-> FALSE, timers |-> 0, disposables |-> 0]

\* if (refreshTimer) { clearInterval(refreshTimer); refreshTimer = undefined }
clearRefreshTimer(a) ==
    [a EXCEPT !.timers = IF a.refreshTimer THEN @ - 1 ELSE @,
              !.refreshTimer = FALSE]

\* the rest of setupAutoRefresh, after the old timer is dealt with
startRefreshTimer(a) ==
    IF a.autoRefresh /\ a.refreshInterval > 0
    THEN [a EXCEPT !.timers = @ + 1, !.refreshTimer = TRUE, !.disposables = @ + 1]
    ELSE a

\* mutant of setupAutoRefresh: the running timer is not cleared first
setupAutoRefresh_noclear(a) == startRefreshTimer(a)

setupAutoRefresh(a) == startRefreshTimer(clearRefreshTimer(a))

\* activate(context), with the settings found
Activate ==
    /\ auto.phase = "inactive"
    /\ \E autoRefresh \in BOOLEAN, refreshInterval \in RefreshIntervals :
          auto' = setupAutoRefresh(
                      [auto EXCEPT !.phase = "active", !.autoRefresh = autoRefresh,
                                   !.refreshInterval = refreshInterval])
    /\ UNCHANGED <<engineVars, dash, watch, fetch>>

\* one of the two settings changes; the listener, while registered, runs
\* setupAutoRefresh
ChangeConfiguration ==
    /\ auto.phase # "inactive"
    /\ auto.disposables < MaxTimerDisposables
    /\ \E autoRefresh \in BOOLEAN, refreshInterval \in RefreshIntervals :
          /\ <<autoRefresh, refreshInterval>> # <<auto.autoRefresh, auto.refreshInterval>>
          /\ \/ /\ auto.phase = "active"
                /\ auto' = setupAutoRefresh(
                               [auto EXCEPT !.autoRefresh = autoRefresh,
                                            !.refreshInterval = refreshInterval])
             \/ /\ auto.phase = "disposed"
                /\ auto' = [auto EXCEPT !.autoRefresh = autoRefresh,
                                        !.refreshInterval = refreshInterval]
    /\ UNCHANGED <<engineVars, dash, watch, fetch>>

\* context.subscriptions are disposed: every timer disposable pushed runs,
\* and the configuration listener goes
DisposeSubscriptions ==
    /\ auto.phase = "active"
    /\ auto' = [(IF auto.disposables > 0 THEN clearRefreshTimer(auto) ELSE auto)
                EXCEPT !.phase = "disposed"]
    /\ UNCHANGED <<engineVars, dash, watch, fetch>>

NextAuto == Activate \/ ChangeConfiguration \/ DisposeSubscriptions

----------------------------------------------------------------------------
(* extension.ts: fetchQuotes, one call of it against a network that may     *)
(* answer, fail, or stay silent at any point                               *)

MaxRetries == 3

QuoteSymbols == {"A", "B", "C"}

\* pc: "idle", "fetching" (awaiting fetch, abort timer armed), "reading"
\* (awaiting response.arrayBuffer(), abort timer cleared), "waiting" (the
\* delay before the next attempt), "returned"
NoFetch == [pc |-> "idle", symbols |-> {}, attempt |-> 0, result |-> {},
            simulated |-> FALSE, fetches |-> 0, waits |-> 0]

\* the catch block of an attempt, and the simulated quotes after the loop
attemptFailed(f) ==
    IF f.attempt < MaxRetries
    THEN [f EXCEPT !.pc = "waiting", !.waits = @ + 1]
    ELSE [f EXCEPT !.pc = "returned", !.result = f.symbols, !.simulated = TRUE]

\* fetchQuotes(symbols) is called
FetchQuotes ==
    /\ fetch.pc = "idle"
    /\ \E symbols \in SUBSET QuoteSymbols :
          fetch' = IF symbols = {} THEN [NoFetch EXCEPT !.pc = "returned"]
                   ELSE [NoFetch EXCEPT !.pc = "fetching", !.symbols = symbols,
                                        !.attempt = 1, !.fetches = 1]
    /\ UNCHANGED <<engineVars, dash, watch, auto>>

\* the response headers arrive; the abort timer is cleared
ResponseArrives ==
    /\ fetch.pc = "fetching"
    /\ \E ok \in BOOLEAN :
          fetch' = IF ok THEN [fetch EXCEPT !.pc = "reading"] ELSE attemptFailed(fetch)
    /\ UNCHANGED <<engineVars, dash, watch, auto>>

\* the request fails before any response
FetchRejects ==
    /\ fetch.pc = "fetching"
    /\ fetch' = attemptFailed(fetch)
    /\ UNCHANGED <<engineVars, dash, watch, auto>>

\* the 10 s timer aborts the request that has no response yet
AbortTimeout ==
    /\ fetch.pc = "fetching"
    /\ fetch' = attemptFailed(fetch)
    /\ UNCHANGED <<engineVars, dash, watch, auto>>

\* the body arrives and is parsed: the symbols with a valid line
BodyArrives ==
    /\ fetch.pc = "reading"
    /\ \E parsed \in SUBSET fetch.symbols :
          fetch' = IF parsed # {}
                   THEN [fetch EXCEPT !.pc = "returned", !.result = parsed]
                   ELSE attemptFailed(fetch)
    /\ UNCHANGED <<engineVars, dash, watch, auto>>

\* reading the body fails
BodyFails ==
    /\ fetch.pc = "reading"
    /\ fetch' = attemptFailed(fetch)
    /\ UNCHANGED <<engineVars, dash, watch, auto>>

\* the delay before the next attempt is over
DelayElapsed ==
    /\ fetch.pc = "waiting"
    /\ fetch' = [fetch EXCEPT !.pc = "fetching", !.attempt = @ + 1,
                              !.fetches = @ + 1]
    /\ UNCHANGED <<engineVars, dash, watch, auto>>

\* the caller takes the quotes
TakeQuotes ==
    /\ fetch.pc = "returned"
    /\ fetch' = NoFetch
    /\ UNCHANGED <<engineVars, dash, watch, auto>>

NextFetch ==
    \/ FetchQuotes \/ ResponseArrives \/ FetchRejects \/ AbortTimeout
    \/ BodyArrives \/ BodyFails \/ DelayElapsed \/ TakeQuotes

----------------------------------------------------------------------------
(* The initial state and the specifications *)

Init ==
    /\ indCall = NoCall
    /\ parsers = [i \in ParserIds |-> NoParser]
    /\ strategies = <<>>
    /\ batch = NoBatch
    /\ view = NoView
    /\ dash = NoDash
    /\ watch = NoWatch
    /\ auto = NoAuto
    /\ fetch = NoFetch

Next ==
    \E i \in ParserIds : NewParser(i) \/ NewParserNoContext(i) \/ Execute(i)

Spec == Init /\ [][Next]_vars

SpecBatch == Init /\ [][NextBatch]_vars

NextInd ==
    \/ CallSma \/ CallEma \/ CallRsi \/ CallCrossover \/ CallKdj \/ CallMacd
    \/ CallBollingerBands \/ CallWilliamsR
    \/ ReturnInd

SpecInd == Init /\ [][NextInd]_vars

\* one parser running the presets
NextPreset == NewParser(1) \/ NewParserNoContext(1) \/ ExecutePreset(1)

SpecPreset == Init /\ [][NextPreset]_vars

SpecDash == Init /\ [][NextDash]_vars

SpecWatch == Init /\ [][NextWatch]_vars

SpecAuto == Init /\ [][NextAuto]_vars

\* the timers of the runtime fire; the network owes nothing
SpecFetch ==
    Init /\ [][NextFetch]_vars /\ WF_vars(AbortTimeout) /\ WF_vars(DelayElapsed)

----------------------------------------------------------------------------
(* Properties of the indicator library *)

IsFlat(s) == \A i \in 1..Len(s) : s[i] = s[1]

\* C8: for every period p >= 1 and every series S with len(S) < p,
\* sma(S, p) and ema(S, p) are both the empty series.
C8_ShortSeriesEmpty ==
    (indCall.fn \in {"sma", "ema"} /\ indCall.period >= 1
        /\ Len(indCall.a) < indCall.period)
    => indCall.out = <<>>

C8_Witness ==
    /\ indCall.fn = "ema"
    /\ Len(indCall.a) = 2
    /\ indCall.period = 3
    /\ indCall.out = <<>>

\* C9: crossover looks only at the last two points of each series:
\* bullish = prevA <= prevB and currA > currB, bearish = prevA >= prevB and
\* currA < currB, both false when a series has fewer than 2 points;
\* crossover([1,2],[2,1]) is bullish and not bearish, crossover([2,1],[1,2])
\* is bearish.
C9_CrossoverLastTwo ==
    indCall.fn = "crossover" =>
        LET A == indCall.a
            B == indCall.b
            la == Len(A)
            lb == Len(B)
        IN  /\ (la < 2 \/ lb < 2) =>
                (~indCall.cross.bullishCross /\ ~indCall.cross.bearishCross)
            /\ (la >= 2 /\ lb >= 2) =>
                /\ indCall.cross.bullishCross =
                       (A[la - 1] <= B[lb - 1] /\ A[la] > B[lb])
                /\ indCall.cross.bearishCross =
                       (A[la - 1] >= B[lb - 1] /\ A[la] < B[lb])
            /\ (A = <<1, 2>> /\ B = <<2, 1>>) =>
                (indCall.cross.bullishCross /\ ~indCall.cross.bearishCross)
            /\ (A = <<2, 1>> /\ B = <<1, 2>>) => indCall.cross.bearishCross

C9_Witness ==
    /\ indCall.fn = "crossover"
    /\ indCall.a = <<1, 2>>
    /\ indCall.b = <<2, 1>>
    /\ indCall.cross.bullishCross

\* C10: for a flat price series (all prices equal) longer than the period
\* (period >= 1), every point returned by rsi(prices, period) is exactly 100.
C10_FlatRsiIs100 ==
    (indCall.fn = "rsi" /\ IsFlat(indCall.a)
        /\ Len(indCall.a) > indCall.period)
    => /\ Len(indCall.out) = Len(indCall.a) - indCall.period
       /\ \A i \in 1..Len(indCall.out) : indCall.out[i] = RInt(100)

C10_Witness ==
    /\ indCall.fn = "rsi"
    /\ IsFlat(indCall.a)
    /\ indCall.period = 1
    /\ Len(indCall.out) = 2
    /\ indCall.out[2] = RInt(100)

StrictlyIncreasing(s) == \A i \in 1..(Len(s) - 1) : s[i] < s[i + 1]
StrictlyDecreasing(s) == \A i \in 1..(Len(s) - 1) : s[i] > s[i + 1]

\* C11: every rsi value computed over a strictly increasing price series is
\* 100, and every value over a strictly decreasing series is 0.
C11_MonotoneRsiAtBounds ==
    indCall.fn = "rsi" =>
        /\ StrictlyIncreasing(indCall.a) =>
               \A i \in 1..Len(indCall.out) : indCall.out[i] = RInt(100)
        /\ StrictlyDecreasing(indCall.a) =>
               \A i \in 1..Len(indCall.out) : indCall.out[i] = RInt(0)

C11_Witness ==
    /\ indCall.fn = "rsi"
    /\ indCall.a = <<3, 2, 1>>
    /\ indCall.period = 1
    /\ indCall.out = <<RInt(0), RInt(0)>>

\* the part of series s inside the window of `period` points ending at w
WindowOf(s, w, period) ==
    {s[x] : x \in {y \in 1..Len(s) : y > w - period /\ y <= w}}

SetMax(S) == CHOOSE x \in S : \A y \in S : y <= x
SetMin(S) == CHOOSE x \in S : \A y \in S : x <= y

\* every window of the call has highs and lows, and its highest high is its
\* lowest low
FlatWindows ==
    \A w \in indCall.period..Len(indCall.c) :
        /\ WindowOf(indCall.a, w, indCall.period) # {}
        /\ WindowOf(indCall.b, w, indCall.period) # {}
        /\ SetMax(WindowOf(indCall.a, w, indCall.period))
               = SetMin(WindowOf(indCall.b, w, indCall.period))

\* C12: when every high / low window is flat (highestHigh = lowestLow in each
\* window), kdj returns k = 50, d = 50 and j = 50 for every computed point.
C12_FlatWindowKdjIs50 ==
    (indCall.fn = "kdj" /\ FlatWindows) =>
        \A i \in 1..Len(indCall.out) :
            indCall.out[i] = [k |-> RInt(50), d |-> RInt(50), j |-> RInt(50)]

C12_Witness ==
    /\ indCall.fn = "kdj"
    /\ indCall.a = <<1, 2>>
    /\ indCall.b = <<1, 2>>
    /\ indCall.c = <<2, 1>>
    /\ indCall.period = 1
    /\ indCall.args = <<3, 3>>
    /\ Len(indCall.out) = 2
    /\ indCall.out[2] = [k |-> RInt(50), d |-> RInt(50), j |-> RInt(50)]

\* C18: every MACD value is the fast EMA minus the slow EMA taken at the
\* same price index (the two EMA series aligned at their tails): result
\* point i of n stands for price number Len(prices) - n + i, where the EMA of
\* period p has its point number (price number - p + 1).
C18_MacdSamePriceIndex ==
    indCall.fn = "macd" =>
        LET prices == ToRat(indCall.a)
            fastPeriod == indCall.args[1]
            slowPeriod == indCall.args[2]
            n == Len(indCall.out)
        IN  \A i \in 1..n :
                indCall.out[i].macd =
                    RSub(ema(prices, fastPeriod)[Len(prices) - n + i - fastPeriod + 1],
                         ema(prices, slowPeriod)[Len(prices) - n + i - slowPeriod + 1])

RECURSIVE SumOf(_)
SumOf(s) == IF s = <<>> THEN 0 ELSE Head(s) + SumOf(Tail(s))

\* the window of `period` inputs that ends at input number w
InputWindow(s, w, period) == SubSeq(s, w - period + 1, w)

\* period * period * the variance of an integer window
ScaledVariance(win, period) ==
    SumOf([x \in 1..Len(win) |->
              (period * win[x] - SumOf(win)) * (period * win[x] - SumOf(win))])

\* C19: for sma, ema and bollingerBands with len(prices) >= period >= 1 the
\* output has exactly len(prices) - period + 1 points, and output point i is
\* computed from the input window ending at input i + period - 1: the mean
\* of that window for sma and the middle band, its variance under the outer
\* bands, and for ema the value the function gives on the inputs up to there.
C19_TailAlignedOutput ==
    (/\ indCall.fn \in {"sma", "ema", "bollingerBands"}
     /\ indCall.period >= 1
     /\ Len(indCall.a) >= indCall.period)
    => LET p == indCall.period
       IN  /\ Len(indCall.out) = Len(indCall.a) - p + 1
           /\ \A i \in 1..Len(indCall.out) :
                  LET win == InputWindow(indCall.a, i + p - 1, p)
                  IN  CASE indCall.fn = "sma" ->
                             indCall.out[i] = Rat(SumOf(win), p)
                        [] indCall.fn = "ema" ->
                             /\ i = 1 => indCall.out[i] = Rat(SumOf(win), p)
                             /\ indCall.out[i]
                                   = ema(ToRat(SubSeq(indCall.a, 1, i + p - 1)), p)[i]
                        [] OTHER ->
                             /\ indCall.out[i].middle = Rat(SumOf(win), p)
                             /\ indCall.out[i].upper.base = Rat(SumOf(win), p)
                             /\ indCall.out[i].lower.base = Rat(SumOf(win), p)
                             /\ indCall.out[i].upper.root
                                   = Rat(ScaledVariance(win, p), p * p * p)
                             /\ indCall.out[i].lower.root
                                   = Rat(ScaledVariance(win, p), p * p * p)

C19_Witness ==
    /\ indCall.fn = "bollingerBands"
    /\ indCall.a = <<1, 2, 3>>
    /\ indCall.period = 2
    /\ Len(indCall.out) = 2
    /\ indCall.out[2].middle = Rat(5, 2)
    /\ indCall.out[2].upper.root = Rat(1, 4)

\* C23: williamsR returns exactly -50 for every window whose highest high
\* equals its lowest low (flat range), instead of dividing by zero.
C23_FlatRangeWilliamsIsMinus50 ==
    indCall.fn = "williamsR" =>
        \A n \in 1..Len(indCall.out) :
            LET w == n + indCall.period - 1
                hs == WindowOf(indCall.a, w, indCall.period)
                ls == WindowOf(indCall.b, w, indCall.period)
            IN  (hs # {} /\ ls # {} /\ SetMax(hs) = SetMin(ls))
                    => indCall.out[n] = RInt(-50)

C23_Witness ==
    /\ indCall.fn = "williamsR"
    /\ indCall.a = <<2, 1>>
    /\ indCall.b = <<2, 1>>
    /\ indCall.c = <<1, 2>>
    /\ indCall.period = 1
    /\ indCall.out = <<RInt(-50), RInt(-50)>>

\* C30: for all input series, crossover never reports bullishCross and
\* bearishCross both true.
C30_CrossNeverBothWays ==
    indCall.fn = "crossover" =>
        ~(indCall.cross.bullishCross /\ indCall.cross.bearishCross)

C30_Witness ==
    /\ indCall.fn = "crossover"
    /\ indCall.a = <<1, 2>>
    /\ indCall.b = <<1, 1>>
    /\ indCall.cross.bullishCross
    /\ ~indCall.cross.bearishCross

----------------------------------------------------------------------------
(* Properties of the script parser *)

Ran(i, name) == parsers[i].made /\ parsers[i].run.script = name

\* the latest rsi(14) value over the context's own history is below 30
RsiBelow30(context) ==
    /\ context.defined
    /\ LET series == rsi(context.historicalPrices, 14)
       IN  Len(series) > 0 /\ RLt(series[Len(series)], RInt(30))

\* C1: whenever rsi(14) over the context's price history is below 30,
\* executing the buy script "rsi(14) < 30" yields buySignal = true.
C1_RsiBuyScriptSignals ==
    \A i \in ParserIds :
        (Ran(i, "rsi(14) < 30") /\ RsiBelow30(parsers[i].context))
        => parsers[i].run.out.buySignal = JsBool(TRUE)

\* the evaluation met a parse or runtime error (one was caught and reported
\* on the console), or the script calls a function that is not a built-in
HitError(i) ==
    \/ parsers[i].run.out.eff.errs > 0
    \/ parsers[i].run.script \in {"foo(5) > 1", "buy = foo(5) > 1"}

\* C3: whenever evaluating a script hits a parse or runtime error, the
\* result has buySignal = false, sellSignal = false and the error field set.
C3_ErrorsAreReported ==
    \A i \in ParserIds :
        (parsers[i].made /\ parsers[i].run.script # "" /\ HitError(i))
        => /\ parsers[i].run.out.buySignal = JsBool(FALSE)
           /\ parsers[i].run.out.sellSignal = JsBool(FALSE)
           /\ parsers[i].run.out.error

\* C4: division by zero inside a user expression evaluates to 0, so the
\* condition 1/0 > 0 is false, with no error, in every context.
C4_DivisionByZeroIsZero ==
    \A i \in ParserIds :
        (Ran(i, "1/0 > 0") \/ Ran(i, "buy = 1/0 > 0"))
        => /\ parsers[i].run.out.buySignal = JsBool(FALSE)
           /\ parsers[i].run.out.sellSignal = JsBool(FALSE)
           /\ ~parsers[i].run.out.error
           /\ ~parsers[i].run.out.threw

\* C5: evaluating a script hands no text built from the script to the
\* dynamic evaluator of the host language (eval / Function constructor).
C5_NoHostEvaluation ==
    \A i \in ParserIds : parsers[i].run.out.eff.evals = {}

\* C6: each context has an indicator cache of its own, and evaluating a
\* script against a context uses that context's price history only, whatever
\* was evaluated before against another context: the script
\* "buy = sma(prices, 1) > 2" signals exactly when the context's own history
\* is a single point above 2.
C6_ContextCachePrivate ==
    /\ \A i, j \in ParserIds :
          (i # j /\ parsers[i].context.defined /\ parsers[j].context.defined)
          => parsers[i].context.indicatorCache.id
                 # parsers[j].context.indicatorCache.id
    /\ \A i \in ParserIds :
          (Ran(i, "buy = sma(prices, 1) > 2") /\ parsers[i].context.defined)
          => LET own == parsers[i].context.historicalPrices
             IN  parsers[i].run.out.buySignal =
                     JsBool(Len(own) = 1 /\ own[1].n > 2 * own[1].d)

C6_Witness ==
    /\ Ran(1, "buy = sma(prices, 1) > 2")
    /\ Ran(2, "buy = sma(prices, 1) > 2")
    /\ parsers[1].context.historicalPrices = ToRat(<<3>>)
    /\ parsers[2].context.historicalPrices = ToRat(<<1>>)
    /\ parsers[1].run.out.buySignal = JsBool(TRUE)
    /\ parsers[2].run.out.buySignal = JsBool(FALSE)

\* C21: execute leaves the context's quote fields (price, change,
\* changePercent) and its historical series unchanged, and leaves every other
\* context unchanged, for every script: a step in which a parser comes to hold
\* the outcome of a run changes no context.
C21_ExecuteLeavesContexts ==
    [][\A i \in ParserIds :
          (parsers'[i] # parsers[i] /\ parsers'[i].run.script # "")
          => \A j \in ParserIds : parsers'[j].context = parsers[j].context]_vars

C21_Witness ==
    /\ Ran(1, "buy = close > sma(prices, 5) - 1")
    /\ parsers[1].context.historicalPrices = ToRat(Rising)
    /\ parsers[1].run.out.buySignal = JsBool(TRUE)
    /\ parsers[2].made
    /\ parsers[2].context.defined
    /\ parsers[2].run = NoRun

\* the names a script uses once the logical words are replaced: the function
\* names and variable names left in its text
NamesUsed(toks) ==
    {preprocessScript(toks)[i].s :
        i \in {j \in 1..Len(toks) : preprocessScript(toks)[j].k = "id"}}

\* C29: every function name and variable name used in the buyScript and
\* sellScript of every preset returned by getPresetStrategies is a built-in
\* function or built-in variable of the evaluator: whichever preset script a
\* parser has run, the names in it are built-in.
C29_PresetsUseBuiltinsOnly ==
    \A i \in ParserIds :
        (parsers[i].made /\ parsers[i].run.script \in PresetScripts)
        => NamesUsed(PresetScriptOf(parsers[i].run.script).toks)
               \subseteq (BuiltinFunctionNames \cup BuiltinVariableNames)

\* C7: when an indicator call inside a condition has fewer history points
\* than it needs (the library returns the empty series), the condition is
\* false, the signal is false and nothing is thrown.
C7_InsufficientDataIsFalse ==
    \A i \in ParserIds :
        (/\ Ran(i, "buy = close > sma(prices, 5) - 1")
         /\ parsers[i].context.defined
         /\ sma(parsers[i].context.historicalPrices, 5) = <<>>)
        => /\ parsers[i].run.out.buySignal = JsBool(FALSE)
           /\ ~parsers[i].run.out.threw

\* the model never leaves the part of the host language it evaluates
ModelCoversScripts ==
    \A i \in ParserIds : ~parsers[i].run.out.eff.unsup

----------------------------------------------------------------------------
(* Properties of the signal check *)

\* the (strategy, symbol) pairs of the stored strategies that have a quote
\* and a configured check, in the order of the two loops
RECURSIVE PairsFrom(_, _, _)
PairsFrom(strats, quotes, k) ==
    IF k > Len(strats) THEN <<>>
    ELSE LET st == strats[k]
             live == st.signals.present \/ UsesScript(st)
             mine == SelectSeq(st.symbols, LAMBDA sym : quotes[sym] # NoQuote)
         IN  (IF live THEN [n \in 1..Len(mine) |-> <<k, mine[n]>>] ELSE <<>>)
             \o PairsFrom(strats, quotes, k + 1)

\* C2: execute returns a ScriptResult and never throws, for every script and
\* context; in the loop of checkAndNotifySignals a failure while evaluating
\* one (strategy, symbol) pair never keeps the remaining pairs from being
\* evaluated.
C2_ExecuteNeverThrows ==
    batch.ran =>
        /\ \A n \in 1..Len(batch.execs) : ~batch.execs[n].threw
        /\ ~batch.aborted
        /\ batch.evaluated = PairsFrom(strategies, batch.quotes, 1)

\* a script that is not a string failed inside execute for the first pair,
\* and the pairs after it were evaluated all the same
C2_Witness ==
    /\ batch.ran
    /\ Len(batch.execs) >= 3
    /\ batch.execs[1].script = "not a string"
    /\ Len(batch.evaluated) >= 3
    /\ ~batch.aborted

\* the scripts of a strategy that are present and not empty, buy first
NonEmptyScripts(st) ==
    SelectSeq(<<st.script.buyScript, st.script.sellScript>>, LAMBDA x : x # "")

RECURSIVE ScriptsOfPairs(_, _)
ScriptsOfPairs(evaluated, i) ==
    IF i > Len(evaluated) THEN <<>>
    ELSE (IF UsesScript(strategies[evaluated[i][1]])
          THEN NonEmptyScripts(strategies[evaluated[i][1]]) ELSE <<>>)
         \o ScriptsOfPairs(evaluated, i + 1)

\* a signal of the given type is raised only by a script that is there
SignalHasScript(st, signalType) ==
    /\ signalType = "buy" => st.script.buyScript # ""
    /\ signalType = "sell" => st.script.sellScript # ""

\* C13: in the script runner (the notification check and the tree-view
\* check) an absent or empty buy or sell script is skipped and never
\* produces its signal, for every quote, and the other script of the pair is
\* still evaluated.
C13_AbsentScriptSkipped ==
    /\ batch.ran =>
          /\ [n \in 1..Len(batch.execs) |-> batch.execs[n].script]
                 = ScriptsOfPairs(batch.evaluated, 1)
          /\ \A n \in 1..Len(batch.notes) :
                 UsesScript(strategies[batch.notes[n][1]]) =>
                     SignalHasScript(strategies[batch.notes[n][1]], batch.notes[n][3])
    /\ view.ran =>
          \A n \in 1..Len(view.rows) :
              UsesScript(strategies[view.rows[n].k]) =>
                  /\ [m \in 1..Len(view.rows[n].check.execs) |->
                         view.rows[n].check.execs[m].script]
                         = NonEmptyScripts(strategies[view.rows[n].k])
                  /\ \A m \in 1..Len(view.rows[n].check.signals) :
                         SignalHasScript(strategies[view.rows[n].k],
                                         view.rows[n].check.signals[m])

\* a strategy without a buy script was checked, and its sell script ran
C13_Witness ==
    /\ view.ran
    /\ Len(view.rows) = 1
    /\ strategies[view.rows[1].k].script.buyScript = ""
    /\ Len(view.rows[1].check.execs) = 1
    /\ view.rows[1].check.execs[1].script = "rsi(14) > 70"

\* a notification (and dashboard record) of the given type was raised for
\* strategy k on the symbol
Notified(k, symbol, signalType) ==
    \E n \in 1..Len(batch.notes) : batch.notes[n] = <<k, symbol, signalType>>

\* C22: for an enabled script strategy and a symbol that has a quote, a buy
\* (resp. sell) notification and dashboard signal record is emitted exactly
\* when executing the strategy's buy (resp. sell) script returns
\* buySignal = true (resp. sellSignal = true); a script whose condition holds
\* is never silently dropped.
C22_NotifiedWhenScriptSignals ==
    batch.ran =>
        \A n \in 1..Len(batch.evaluated) :
            LET k == batch.evaluated[n][1]
                symbol == batch.evaluated[n][2]
                st == strategies[k]
                quote == batch.quotes[symbol]
            IN  UsesScript(st) =>
                  /\ st.script.buyScript # "" =>
                        (Notified(k, symbol, "buy")
                            <=> BatchExecuteTable[quote, st.script.buyScript].buySignal
                                    = JsBool(TRUE))
                  /\ st.script.sellScript # "" =>
                        (Notified(k, symbol, "sell")
                            <=> BatchExecuteTable[quote, st.script.sellScript].sellSignal
                                    = JsBool(TRUE))

\* a threshold strategy whose buy and sell conditions are enabled with only
\* a change threshold, and whose pop-ups are on
OnlyChangeThresholds(st) ==
    /\ ~UsesScript(st) /\ st.signals.present /\ st.signals.showPopup
    /\ st.signals.buyConditions.enabled /\ st.signals.buyConditions.hasChange
    /\ ~st.signals.buyConditions.hasPrice
    /\ st.signals.sellConditions.enabled /\ st.signals.sellConditions.hasChange
    /\ ~st.signals.sellConditions.hasPrice

\* the signals the thresholds of st call for on a quote
ThresholdSignals(st, quote) ==
    (IF RLe(quote.change, st.signals.buyConditions.changeThreshold)
     THEN <<"buy">> ELSE <<>>)
    \o (IF RLe(st.signals.sellConditions.changeThreshold, quote.change)
        THEN <<"sell">> ELSE <<>>)

\* C14: for a threshold strategy with only changeThreshold = t set (a
\* fraction), a buy signal is produced exactly when quote.change <= t, and a
\* sell signal exactly when quote.change >= the sell threshold, both in the
\* tree-view check and in the notification check.
C14_ChangeThresholdExact ==
    /\ batch.ran =>
          \A n \in 1..Len(batch.evaluated) :
              LET k == batch.evaluated[n][1]
                  symbol == batch.evaluated[n][2]
              IN  OnlyChangeThresholds(strategies[k]) =>
                      SelectSeq(batch.notes,
                                LAMBDA note : note[1] = k /\ note[2] = symbol)
                      = [m \in 1..Len(ThresholdSignals(strategies[k],
                                                       batch.quotes[symbol])) |->
                            <<k, symbol,
                              ThresholdSignals(strategies[k], batch.quotes[symbol])[m]>>]
    /\ view.ran =>
          \A n \in 1..Len(view.rows) :
              OnlyChangeThresholds(strategies[view.rows[n].k]) =>
                  view.rows[n].check.signals
                      = ThresholdSignals(strategies[view.rows[n].k],
                                         view.quotes[view.rows[n].symbol])

----------------------------------------------------------------------------
(* Properties of the parser's indicator calls *)

\* C15: within one script evaluation against a context, every built-in
\* indicator call made is stored in the context cache under its key
\* (function name, resolved arguments), so that afterwards the cache holds
\* an entry for every call made, and no call signature is computed twice.
C15_CallsAreCached ==
    \A i \in ParserIds :
        (parsers[i].made /\ parsers[i].context.defined /\ parsers[i].run.script # "")
        => LET calls == parsers[i].run.out.eff.calls
           IN  /\ \A n \in 1..Len(calls) :
                      \E e \in parsers[i].context.indicatorCache.entries :
                          e.key = calls[n]
               /\ \A m, n \in 1..Len(calls) : m # n => calls[m] # calls[n]

\* C16: a built-in indicator call that omits the series argument is computed
\* over the context's historical prices: with a history long enough for
\* rsi(14), the condition rsi(14) < 30 is true exactly when the latest point
\* of rsi(historicalPrices, 14) is below 30.
C16_ImplicitSeriesIsHistory ==
    \A i \in ParserIds :
        (/\ Ran(i, "buy = rsi(14) < 30")
         /\ parsers[i].context.defined
         /\ Len(rsi(parsers[i].context.historicalPrices, 14)) > 0)
        => parsers[i].run.out.buySignal = JsBool(RsiBelow30(parsers[i].context))

\* C17: for a buy condition that compares two numbers with one of
\* > < >= <= == !=, the buy signal is the truth value of the comparison; the
\* operators containing '=' are comparisons too: 3 >= 2 signals, 1 == 2 does
\* not, whatever the context.
C17_ComparisonsWithEquals ==
    \A i \in ParserIds :
        /\ Ran(i, "buy = 3 >= 2") => parsers[i].run.out.buySignal = JsBool(TRUE)
        /\ Ran(i, "buy = 1 == 2") => parsers[i].run.out.buySignal = JsBool(FALSE)

\* C20: the built-in variables resolve against the context's quote: close
\* and price to the quote price, change to the quote change, change_percent
\* to the quote change multiplied by 100, for every context, including those
\* built by createScriptContext.
C20_VariablesResolveToQuote ==
    \A i \in ParserIds :
        parsers[i].context.defined =>
            /\ Ran(i, "buy = change_percent > 5") =>
                   parsers[i].run.out.buySignal
                       = JsBool(RLt(RInt(5),
                                    RMul(parsers[i].context.change, RInt(100))))
            /\ Ran(i, "sell = sma() > 1 // none\nbuy = not change < 0 and close > 2") =>
                   parsers[i].run.out.buySignal
                       = JsBool(~RLt(parsers[i].context.change, RInt(0))
                                /\ RLt(RInt(2), parsers[i].context.price))

----------------------------------------------------------------------------
(* Properties of the extension host: dashboard, watchlist, timers, quotes *)

\* the history of the panel that is current, <<>> when none is
CurrentHistory(d) ==
    IF d.currentPanel = 0 THEN <<>> ELSE d.panels[d.currentPanel].signalHistory

\* C24: after any sequence of addSignal / addSignalToHistory and clearHistory
\* operations on the dashboard panel, the signal history holds at most 100
\* records, ordered newest first; adding a record when 100 are held drops the
\* oldest one.
C24_HistoryBoundedNewestFirst ==
    [][LET h == CurrentHistory(dash)
           g == CurrentHistory(dash')
       IN  /\ Len(g) <= HistoryLimit
           /\ \A n \in 1..(Len(g) - 1) : g[n] > g[n + 1]
           /\ (Len(h) = HistoryLimit /\ dash'.clock # dash.clock)
                 => g = <<dash'.clock>> \o SubSeq(h, 1, HistoryLimit - 1)]_vars

\* 101 records were added to one panel: the first of them is gone
C24_Witness ==
    /\ dash.currentPanel = 1
    /\ dash.clock = 101
    /\ Len(dash.panels[1].signalHistory) = 100
    /\ dash.panels[1].signalHistory[1] = 101
    /\ dash.panels[1].signalHistory[100] = 2

\* C27: after any sequence of createOrShow, addSignal and dispose on the
\* strategy dashboard, at most one panel exists (currentPanel), each live
\* panel has at most one live update timer, and once a panel is disposed
\* currentPanel is undefined and no update timer of that panel is live or is
\* started again.
C27_OnePanelOneTimer ==
    /\ LivePanels = IF dash.currentPanel = 0 THEN {} ELSE {dash.currentPanel}
    /\ \A p \in PanelIds :
          /\ dash.panels[p].state = "live" => dash.panels[p].timers <= 1
          /\ dash.panels[p].state = "disposed" =>
                /\ dash.panels[p].timers = 0
                /\ ~dash.panels[p].updateTimer
                /\ dash.currentPanel # p

\* a panel took a signal and was disposed, and a second panel is open
C27_Witness ==
    /\ dash.panels[1].state = "disposed"
    /\ dash.panels[1].timers = 0
    /\ dash.currentPanel = 2
    /\ dash.panels[2].timers = 1
    /\ Len(dash.panels[2].signalHistory) = 2

\* C25: under any interleaving of concurrently running addWatchStock
\* commands, the stored watchlist never contains two entries with the same
\* symbol.
C25_NoDuplicateSymbols ==
    watch.stored # 0 =>
        \A m, n \in 1..Len(watch.arrays[watch.stored]) :
            m # n => watch.arrays[watch.stored][m] # watch.arrays[watch.stored][n]

\* C26: after activation and any sequence of configuration-change events, at
\* most one auto-refresh interval timer is live, and none is live when
\* autoRefresh is false or refreshInterval <= 0; once the extension's
\* subscriptions are disposed no refresh timer remains.
C26_OneRefreshTimer ==
    /\ auto.timers <= 1
    /\ (auto.phase = "active" /\ (~auto.autoRefresh \/ auto.refreshInterval <= 0))
          => auto.timers = 0
    /\ auto.phase = "disposed" => auto.timers = 0

\* the timer was set up three times, the last setting turned it off
C26_Witness ==
    /\ auto.phase = "active"
    /\ auto.disposables = 3
    /\ ~auto.autoRefresh
    /\ auto.timers = 0
    /\ ~auto.refreshTimer

\* C28: fetchQuotes terminates after at most 3 fetch attempts for any
\* behaviour of the network: it returns the parsed quotes at the first
\* attempt that parses at least one quote, waits between failed attempts but
\* not after the last, and if all 3 attempts fail returns a (simulated) quote
\* for every requested symbol; for an empty symbol list it returns an empty
\* result without any attempt.
C28_FetchQuotesTerminates ==
    /\ [](fetch.fetches <= MaxRetries)
    /\ [](fetch.pc = "returned" =>
            /\ fetch.symbols = {} => (fetch.fetches = 0 /\ fetch.result = {})
            /\ fetch.simulated =>
                  /\ fetch.fetches = MaxRetries
                  /\ fetch.waits = MaxRetries - 1
                  /\ fetch.result = fetch.symbols
            /\ (fetch.symbols # {} /\ ~fetch.simulated) =>
                  /\ fetch.result # {}
                  /\ fetch.result \subseteq fetch.symbols
                  /\ fetch.waits = fetch.fetches - 1)
    /\ (fetch.pc \in {"fetching", "reading", "waiting"}) ~> (fetch.pc = "returned")

====
